---- MODULE Spec2Model ----
(***************************************************************************)
(* Model of the cockpit assistant's orchestration core (gqhhhhh/ZCAgent):  *)
(* Task / TaskGraph (src/task/task_graph.py), TaskScheduler                *)
(* (src/task/task_scheduler.py), SafetyChecker                             *)
(* (src/cockpit/safety_checker.py), TaskExecutor                           *)
(* (src/task/task_executor.py), PlanExecuteAgent                           *)
(* (src/agent/plan_execute_agent.py) and AgentDispatcher                   *)
(* (src/agent/dispatcher.py).                                              *)
(***************************************************************************)
EXTENDS Integers, Sequences, FiniteSets, TLC

VARIABLES
    graph,      \* TaskGraph: [order, tasks, completed] (_tasks is an insertion-ordered dict)
    running,    \* TaskScheduler._running_tasks
    cfg,        \* SafetyChecker: [blocked, confirm] (blocked_while_driving, require_confirmation)
    req,        \* the arguments of the last SafetyChecker.check call: [intent, ds]
    verdict,    \* the SafetyCheckResult it returned
    pe,         \* one PlanExecuteAgent.process call: its locals and its position
    disp,       \* AgentDispatcher: its memory, and the locals of one process call
    fallback    \* the last stand-alone IntentParser.parse and CoTAgent.process calls

schedVars == <<graph, running>>
safetyVars == <<cfg, req, verdict>>
vars == <<graph, running, cfg, req, verdict, pe, disp, fallback>>

(***************************************************************************)
(* Bounds                                                                  *)
(***************************************************************************)
MaxTasks == 2
MaxBatch == 2
MaxCalls == 1
MaxEdges == 2
TaskIds == 1..MaxTasks

(***************************************************************************)
(* TaskStatus, TaskPriority (task_graph.py)                                *)
(***************************************************************************)
PENDING == "pending"
READY == "ready"
RUNNING == "running"
COMPLETED == "completed"
FAILED == "failed"
CANCELLED == "cancelled"
TaskStatus == {PENDING, READY, RUNNING, COMPLETED, FAILED, CANCELLED}
Terminal == {COMPLETED, FAILED, CANCELLED}

PrioCritical == 100
PrioHigh == 80
PrioMedium == 60
PrioNormal == 50
PrioLow == 30
PrioPhone == 70

\* text is a sequence of tokens; the empty sequence stands for None / ""
NoError == <<>>

\* Task(...) with the dataclass defaults: status PENDING, error None
Task(domain, action, priority, deps) ==
    [domain |-> domain, action |-> action, priority |-> priority,
     status |-> PENDING, dependencies |-> deps, error |-> NoError]

\* mutant: every task counts as ready
is_ready_Always(task, completed_tasks) == TRUE

\* Task.is_ready
is_ready(task, completed_tasks) == task.dependencies \subseteq completed_tasks

mark_running(task) == [task EXCEPT !.status = RUNNING]
mark_completed(task) == [task EXCEPT !.status = COMPLETED]
mark_failed(task, error) == [task EXCEPT !.status = FAILED, !.error = error]
mark_cancelled(task) == [task EXCEPT !.status = CANCELLED]

(***************************************************************************)
(* TaskGraph                                                               *)
(***************************************************************************)
EmptyGraph == [order |-> <<>>, tasks |-> <<>>, completed |-> {}]

Has(g, id) == id \in DOMAIN g.tasks

\* self._tasks[task.task_id] = task : a dict keeps the position of an existing key
add_task(g, id, task) ==
    [g EXCEPT !.order = IF Has(g, id) THEN g.order ELSE Append(g.order, id),
              !.tasks = [x \in (DOMAIN g.tasks) \cup {id} |->
                            IF x = id THEN task ELSE g.tasks[x]]]

\* mutant: only the dependent task has to be in the graph
add_dependency_Unchecked(g, id, depends_on) ==
    IF Has(g, id)
    THEN [g EXCEPT !.tasks[id].dependencies = @ \cup {depends_on}]
    ELSE g

add_dependency(g, id, depends_on) ==
    IF Has(g, id) /\ Has(g, depends_on)
    THEN [g EXCEPT !.tasks[id].dependencies = @ \cup {depends_on}]
    ELSE g

\* sorted(seq, key=priority, reverse=True): Python's sort is stable
RECURSIVE SortByPriority(_, _)
SortByPriority(seq, tasks) ==
    IF seq = <<>> THEN <<>>
    ELSE LET n == Len(seq)
             rest == SortByPriority(SubSeq(seq, 1, n - 1), tasks)
             x == seq[n]
             k == Cardinality({i \in 1..Len(rest) :
                                  tasks[rest[i]].priority >= tasks[x].priority})
         IN SubSeq(rest, 1, k) \o <<x>> \o SubSeq(rest, k + 1, Len(rest))

\* the graph after get_ready_tasks: PENDING tasks with satisfied dependencies become READY
ReadyMarked(g) ==
    [g EXCEPT !.tasks = [x \in DOMAIN g.tasks |->
        IF g.tasks[x].status = PENDING /\ is_ready(g.tasks[x], g.completed)
        THEN [g.tasks[x] EXCEPT !.status = READY]
        ELSE g.tasks[x]]]

\* mutant: only the tasks this call turned READY are returned
get_ready_tasks_OnlyNew(g) ==
    LET g2 == ReadyMarked(g)
        IsNew(x) == g2.tasks[x].status = READY /\ g.tasks[x].status = PENDING
    IN SortByPriority(SelectSeq(g.order, IsNew), g2.tasks)

\* the list get_ready_tasks returns
get_ready_tasks(g) ==
    LET g2 == ReadyMarked(g)
        IsReady(x) == g2.tasks[x].status = READY
    IN SortByPriority(SelectSeq(g.order, IsReady), g2.tasks)

complete_task(g, id) ==
    IF Has(g, id)
    THEN [g EXCEPT !.tasks[id] = mark_completed(@),
                   !.completed = @ \cup {id}]
    ELSE g

\* mutant: the cascade also cancels running dependents
fail_task_CancelsRunning(g, id, error) ==
    IF Has(g, id)
    THEN LET failed == [g.tasks EXCEPT ![id] = mark_failed(@, error)]
         IN [g EXCEPT !.tasks = [x \in DOMAIN failed |->
                IF id \in failed[x].dependencies
                   /\ failed[x].status \in {PENDING, READY, RUNNING}
                THEN mark_cancelled(failed[x])
                ELSE failed[x]]]
    ELSE g

\* mutant: the cascade also cancels the dependents of the dependents
fail_task_Transitive(g, id, error) ==
    IF Has(g, id)
    THEN LET failed == [g.tasks EXCEPT ![id] = mark_failed(@, error)]
             direct == {x \in DOMAIN failed : id \in failed[x].dependencies}
         IN [g EXCEPT !.tasks = [x \in DOMAIN failed |->
                IF (id \in failed[x].dependencies
                      \/ failed[x].dependencies \cap direct # {})
                   /\ failed[x].status \in {PENDING, READY}
                THEN mark_cancelled(failed[x])
                ELSE failed[x]]]
    ELSE g

\* mutant: the task is marked failed and no dependent is cancelled
fail_task_NoCascade(g, id, error) ==
    IF Has(g, id) THEN [g EXCEPT !.tasks[id] = mark_failed(@, error)] ELSE g

fail_task(g, id, error) ==
    IF Has(g, id)
    THEN LET failed == [g.tasks EXCEPT ![id] = mark_failed(@, error)]
         IN [g EXCEPT !.tasks = [x \in DOMAIN failed |->
                IF id \in failed[x].dependencies /\ failed[x].status \in {PENDING, READY}
                THEN mark_cancelled(failed[x])
                ELSE failed[x]]]
    ELSE g

is_complete(g) == \A x \in DOMAIN g.tasks : g.tasks[x].status \in Terminal

\* mutant: get_execution_order keeps cancelled and failed tasks in `remaining`
Remaining_All(g) == DOMAIN g.tasks

\* get_execution_order: the tasks it starts from
Remaining(g) == {tid \in DOMAIN g.tasks : g.tasks[tid].status \notin {CANCELLED, FAILED}}

\* mutant: the loop ends after its first pass
Waves_SinglePass(g, completed, remaining) ==
    LET wave == {tid \in remaining : is_ready(g.tasks[tid], completed)}
    IN IF wave = {} THEN <<>> ELSE <<wave>>

\* get_execution_order: the waves as sets, from the while loop
RECURSIVE Waves(_, _, _)
Waves(g, completed, remaining) ==
    LET wave == {tid \in remaining : is_ready(g.tasks[tid], completed)}
    IN IF remaining = {} \/ wave = {} THEN <<>>
       ELSE <<wave>> \o Waves(g, completed \cup wave, remaining \ wave)

WaveSets(g) == Waves(g, {}, Remaining(g))

\* sorted(wave, key=priority, reverse=True) of a list built by iterating over a set:
\* any order of the wave in which priorities do not increase
PrioOrders(S, tasks) ==
    {o \in [1..Cardinality(S) -> S] :
        /\ \A i, j \in 1..Cardinality(S) : i # j => o[i] # o[j]
        /\ \A i, j \in 1..Cardinality(S) :
              i < j => tasks[o[i]].priority >= tasks[o[j]].priority}

\* the lists of waves get_execution_order can return
get_execution_order(g) ==
    LET W == WaveSets(g)
        AllOrders == UNION {PrioOrders(W[i], g.tasks) : i \in 1..Len(W)}
    IN {ws \in [1..Len(W) -> AllOrders] : \A i \in 1..Len(W) : ws[i] \in PrioOrders(W[i], g.tasks)}

(***************************************************************************)
(* Domain model (src/cockpit/domains.py)                                   *)
(***************************************************************************)
DomainType == {"navigation", "phone", "music", "vehicle_setting", "safety", "general"}

IntentType ==
    {"navigate_to", "search_poi", "cancel_navigation",
     "make_call", "answer_call", "reject_call", "send_message",
     "play_music", "pause_music", "next_track", "adjust_volume",
     "set_temperature", "open_window", "close_window", "set_seat", "set_light",
     "emergency_call", "adas_control", "fatigue_alert",
     "query", "chat", "unknown"}

INTENT_DOMAIN_MAP(t) ==
    CASE t \in {"navigate_to", "search_poi", "cancel_navigation"} -> "navigation"
      [] t \in {"make_call", "answer_call", "reject_call", "send_message"} -> "phone"
      [] t \in {"play_music", "pause_music", "next_track", "adjust_volume"} -> "music"
      [] t \in {"set_temperature", "open_window", "close_window", "set_seat", "set_light"}
            -> "vehicle_setting"
      [] t \in {"emergency_call", "adas_control", "fatigue_alert"} -> "safety"
      [] OTHER -> "general"

\* ParsedIntent: the fields the safety gate and the orchestrator read
ParsedIntent(t, d) == [type |-> t, domain |-> d]

(***************************************************************************)
(* SafetyChecker (src/cockpit/safety_checker.py)                           *)
(***************************************************************************)
\* f"操作 '{action_name}' 在行驶中被禁止"
BlockedReason(action_name) == <<"operation", action_name, "is blocked while driving">>
\* f"操作 '{action_name}' 需要确认"
ConfirmWarning(action_name) == <<"operation", action_name, "needs confirmation">>
\* "紧急呼叫将立即执行"
EmergencyWarning == <<"the emergency call is placed at once">>
\* "高速行驶中，建议使用语音交互完成导航设置"
HighwayWarning == <<"on the highway, set up navigation by voice">>

Contains(text, token) == \E i \in 1..Len(text) : text[i] = token

SafetyCheckResult(is_safe, requires_confirmation, blocked_reason, warnings) ==
    [is_safe |-> is_safe, requires_confirmation |-> requires_confirmation,
     blocked_reason |-> blocked_reason, warnings |-> warnings]

Safe(warnings) == SafetyCheckResult(TRUE, FALSE, <<>>, warnings)

\* mutant: the blocked list is consulted before the safety-domain pass
check_BlockedFirst(c, intent, driving_state) ==
    IF driving_state \in {"driving", "highway"} /\ intent.type \in c.blocked
    THEN SafetyCheckResult(FALSE, FALSE, BlockedReason(intent.type), <<>>)
    ELSE IF intent.domain = "safety"
    THEN IF intent.type = "emergency_call"
         THEN SafetyCheckResult(TRUE, TRUE, <<>>, <<EmergencyWarning>>)
         ELSE Safe(<<>>)
    ELSE Safe(<<>>)

\* mutant: the blocked list is consulted for "driving" only
check_HighwayUnblocked(c, intent, driving_state) ==
    IF intent.domain = "safety"
    THEN IF intent.type = "emergency_call"
         THEN SafetyCheckResult(TRUE, TRUE, <<>>, <<EmergencyWarning>>)
         ELSE Safe(<<>>)
    ELSE IF driving_state = "driving" /\ intent.type \in c.blocked
    THEN SafetyCheckResult(FALSE, FALSE, BlockedReason(intent.type), <<>>)
    ELSE Safe(<<>>)

\* mutant: the blocked and confirmation lists are consulted in every driving state
check_EveryState(c, intent, driving_state) ==
    IF intent.domain = "safety"
    THEN IF intent.type = "emergency_call"
         THEN SafetyCheckResult(TRUE, TRUE, <<>>, <<EmergencyWarning>>)
         ELSE Safe(<<>>)
    ELSE IF intent.type \in c.blocked
    THEN SafetyCheckResult(FALSE, FALSE, BlockedReason(intent.type), <<>>)
    ELSE IF intent.type \in c.confirm
    THEN SafetyCheckResult(TRUE, TRUE, <<>>, <<ConfirmWarning(intent.type)>>)
    ELSE IF intent.domain = "navigation" /\ driving_state = "highway"
    THEN Safe(<<HighwayWarning>>)
    ELSE Safe(<<>>)

\* SafetyChecker.check
check(c, intent, driving_state) ==
    IF intent.domain = "safety"
    THEN IF intent.type = "emergency_call"
         THEN SafetyCheckResult(TRUE, TRUE, <<>>, <<EmergencyWarning>>)
         ELSE Safe(<<>>)
    ELSE IF driving_state \in {"driving", "highway"}
    THEN LET action_name == intent.type
             check_key == IF driving_state = "highway" /\ intent.type = "open_window"
                          THEN "open_window_highway" ELSE action_name
         IN IF action_name \in c.blocked
            THEN SafetyCheckResult(FALSE, FALSE, BlockedReason(action_name), <<>>)
            ELSE IF check_key \in c.confirm
            THEN SafetyCheckResult(TRUE, TRUE, <<>>, <<ConfirmWarning(action_name)>>)
            ELSE IF intent.domain = "navigation" /\ driving_state = "highway"
            THEN Safe(<<HighwayWarning>>)
            ELSE Safe(<<>>)
    ELSE Safe(<<>>)

\* inputs of check: configurations, intents (any type with any domain, as the
\* ParsedIntent constructor allows) and driving states, one of them outside the
\* documented three
BlockedNames == {"play_music", "emergency_call", "navigate_to"}
ConfirmNames == {"open_window", "open_window_highway", "emergency_call"}
Configs == {[blocked |-> b, confirm |-> k] : b \in SUBSET BlockedNames, k \in SUBSET ConfirmNames}
CheckedTypes == {"navigate_to", "play_music", "open_window", "emergency_call",
                 "adas_control", "unknown"}
CheckedIntents == {ParsedIntent(t, d) : t \in CheckedTypes, d \in DomainType}
DrivingStates == {"parked", "driving", "highway", "reversing"}

NoConfig == [blocked |-> {}, confirm |-> {}]
NoReq == [intent |-> ParsedIntent("unknown", "general"), ds |-> "none"]

(***************************************************************************)
(* TaskExecutor (src/task/task_executor.py)                                *)
(***************************************************************************)
DOMAIN_PRIORITY(domain) ==
    CASE domain = "safety" -> PrioCritical
      [] domain = "navigation" -> PrioHigh
      [] domain = "phone" -> PrioPhone
      [] domain = "vehicle_setting" -> PrioMedium
      [] domain = "music" -> PrioNormal
      [] domain = "general" -> PrioLow
      [] OTHER -> PrioNormal

\* intent_to_task; the task id (uuid) is the position of the intent in the batch
intent_to_task(intent) == Task(intent.domain, intent.type, DOMAIN_PRIORITY(intent.domain), {})

\* a handler's result map; `task` names the task the entry belongs to
SuccessResult(id, task) ==
    [status |-> "success", task |-> id, action |-> task.action,
     message |-> <<task.domain, task.action>>, error |-> <<>>]
\* {"status": "failed", "task": task_id, "error": str(e)}
FailedResult(id, error) ==
    [status |-> "failed", task |-> id, action |-> "", message |-> <<>>, error |-> error]

(***************************************************************************)
(* PlanExecuteAgent.process (src/agent/plan_execute_agent.py)              *)
(***************************************************************************)
\* IntentType(intent_data["type"]), UNKNOWN for a string that names no intent type
IntentOf(type) ==
    LET intent_type == IF type \in IntentType THEN type ELSE "unknown"
    IN ParsedIntent(intent_type, INTENT_DOMAIN_MAP(intent_type))

\* the task built for one intent of the batch, cancelled when the safety gate blocks it
TaskFor(type, driving_state, checker) ==
    LET intent == IntentOf(type)
        task == intent_to_task(intent)
        safety_result == check(cfg, intent, driving_state)
    IN IF checker /\ ~safety_result.is_safe
       THEN [mark_cancelled(task) EXCEPT !.error = safety_result.blocked_reason]
       ELSE task

\* the graph after the first n intents of the batch were added
RECURSIVE AddIntents(_, _, _, _)
AddIntents(batch, n, driving_state, checker) ==
    IF n = 0 THEN EmptyGraph
    ELSE add_task(AddIntents(batch, n - 1, driving_state, checker), n,
                  TaskFor(batch[n], driving_state, checker))

RECURSIVE AddDependencies(_, _)
AddDependencies(g, pairs) ==
    IF pairs = {} THEN g
    ELSE LET p == CHOOSE q \in pairs : TRUE
         IN AddDependencies(add_dependency(g, p[1], p[2]), pairs \ {p})

\* mutant: no dependency is added
SafetyFirst_None(g) == g

\* every non-safety task depends on every safety task of the batch
SafetyFirst(g) ==
    LET safety_task_ids == {x \in DOMAIN g.tasks : g.tasks[x].domain = "safety"}
        others == {x \in DOMAIN g.tasks : g.tasks[x].domain # "safety"}
    IN AddDependencies(g, others \X safety_task_ids)

BuildGraph(batch, driving_state, checker) ==
    SafetyFirst(AddIntents(batch, Len(batch), driving_state, checker))

\* "；".join(messages) / "所有任务执行完成" / "已完成 n/m 个任务" / "所有任务已被取消或无法执行"
RECURSIVE JoinMessages(_)
JoinMessages(results) ==
    IF results = <<>> THEN <<>>
    ELSE results[1].message \o JoinMessages(Tail(results))

IsSuccess(r) == r.status = "success"

PlanContent(task_results) ==
    LET success_count == Len(SelectSeq(task_results, IsSuccess))
        total == Len(task_results)
    IN IF total = 0 THEN <<"all tasks were cancelled or cannot be executed">>
       ELSE IF success_count = total
       THEN (IF JoinMessages(task_results) # <<>> THEN JoinMessages(task_results)
             ELSE <<"all tasks done">>)
       ELSE <<"done n of m tasks">>

\* the marker "需要确认" the orchestrator looks for in the tasks' error texts
ConfirmMarker == "needs confirmation"

AgentResponse(content, intent_results, task_results, requires_confirmation) ==
    [content |-> content, intent_results |-> intent_results,
     task_results |-> task_results, requires_confirmation |-> requires_confirmation]

NoResponse == AgentResponse(<<>>, <<>>, <<>>, FALSE)

PlanResponse(g, task_results) ==
    AgentResponse(PlanContent(task_results), <<>>, task_results,
                  \E x \in DOMAIN g.tasks : Contains(g.tasks[x].error, ConfirmMarker))

PeIdle == [pc |-> "idle", batch |-> <<>>, ds |-> "parked", checker |-> FALSE,
           waves |-> <<>>, w |-> 1, k |-> 1, task_results |-> <<>>,
           invoked |-> <<>>, response |-> NoResponse]

\* process up to the computation of the waves (or its early return for an empty batch)
pe_begin(batch, driving_state, checker) ==
    IF batch = <<>>
    THEN /\ graph' = EmptyGraph
         /\ pe' = [PeIdle EXCEPT !.pc = "done", !.ds = driving_state, !.checker = checker,
                      !.response = AgentResponse(<<"no executable task recognised">>,
                                                 <<>>, <<>>, FALSE)]
    ELSE /\ graph' = BuildGraph(batch, driving_state, checker)
         /\ \E execution_waves \in get_execution_order(graph') :
               pe' = [PeIdle EXCEPT !.pc = "exec", !.batch = batch, !.ds = driving_state,
                         !.checker = checker, !.waves = execution_waves]

\* mutant: the waves are walked from the last one to the first
PeCurrent_LastWaveFirst == pe.waves[Len(pe.waves) + 1 - pe.w][pe.k]
PeCurrent == pe.waves[pe.w][pe.k]
PeMore == pe.pc = "exec" /\ pe.w <= Len(pe.waves)
PeAdvance(p) == IF p.k < Len(p.waves[p.w]) THEN [p EXCEPT !.k = p.k + 1]
                ELSE [p EXCEPT !.w = p.w + 1, !.k = 1]
PeRunnable == graph.tasks[PeCurrent].status \notin {CANCELLED, FAILED}

\* texts a handler's exception can carry
HandlerErrors == {<<"boom">>}

\* the handler of the current task returns: complete_task, result appended
pe_execute_ok ==
    /\ PeMore /\ PeRunnable
    /\ graph' = complete_task(graph, PeCurrent)
    /\ pe' = PeAdvance([pe EXCEPT
                !.invoked = Append(@, PeCurrent),
                !.task_results = Append(@, SuccessResult(PeCurrent, graph.tasks[PeCurrent]))])

\* mutant: an exception of a handler ends the walk through the waves
pe_execute_raise_Aborts(error) ==
    /\ PeMore /\ PeRunnable
    /\ graph' = fail_task(graph, PeCurrent, error)
    /\ pe' = [pe EXCEPT !.w = Len(pe.waves) + 1, !.k = 1,
                        !.invoked = Append(@, PeCurrent),
                        !.task_results = Append(@, FailedResult(PeCurrent, error))]

\* mutant: a task whose handler raised is executed once more
pe_execute_raise_Retries(error) ==
    /\ PeMore /\ PeRunnable
    /\ graph' = fail_task(graph, PeCurrent, error)
    /\ pe' = PeAdvance([pe EXCEPT !.invoked = Append(Append(@, PeCurrent), PeCurrent),
                                  !.task_results = Append(@, FailedResult(PeCurrent, error))])

\* the handler of the current task raises: fail_task, failed entry appended
pe_execute_raise(error) ==
    /\ PeMore /\ PeRunnable
    /\ graph' = fail_task(graph, PeCurrent, error)
    /\ pe' = PeAdvance([pe EXCEPT
                !.invoked = Append(@, PeCurrent),
                !.task_results = Append(@, FailedResult(PeCurrent, error))])

\* the current task was cancelled or failed meanwhile: the loop passes over it
pe_skip ==
    /\ PeMore /\ ~PeRunnable
    /\ pe' = PeAdvance(pe)
    /\ UNCHANGED graph

\* after the last wave: the response is assembled and returned
pe_return ==
    /\ pe.pc = "exec" /\ pe.w > Len(pe.waves)
    /\ pe' = [pe EXCEPT !.pc = "done", !.response = PlanResponse(graph, pe.task_results)]
    /\ UNCHANGED graph

\* inputs of a stand-alone PlanExecuteAgent: intent types ("watch_video" names no
\* IntentType), batches, configurations
PlanTypes == {"navigate_to", "play_music", "emergency_call", "watch_video"}
Batches == UNION {[1..n -> PlanTypes] : n \in 0..MaxBatch}
PlanConfigs == {[blocked |-> b, confirm |-> k] :
                   b \in SUBSET {"play_music", "navigate_to"}, k \in SUBSET {"navigate_to"}}
PlanDrivingStates == {"parked", "driving", "highway"}



(***************************************************************************)
(* IntentParser.parse (src/cockpit/intent_parser.py)                       *)
(***************************************************************************)
\* confidences are in percent
KEYWORD_MATCH_CONFIDENCE_MULTIPLIER == 3
KEYWORD_CONFIDENCE_THRESHOLD == 50
DEFAULT_FAST_PATH_THRESHOLD == 60

\* an utterance, with what the loop of _keyword_match finds in it: the intent of its
\* best-scoring keyword ("unknown" when none matches) and that keyword's length
Utterance(text, len, kw_intent, kw_len) ==
    [text |-> text, len |-> len, kw_intent |-> kw_intent, kw_len |-> kw_len]

Intent(type, confidence) ==
    [type |-> type, domain |-> INTENT_DOMAIN_MAP(type), confidence |-> confidence]

\* _keyword_match: confidence = min(len(keyword) / len(text) * 3.0, 1.0)
keyword_match(u) ==
    LET scaled == (100 * KEYWORD_MATCH_CONFIDENCE_MULTIPLIER * u.kw_len) \div u.len
    IN Intent(u.kw_intent, IF scaled > 100 THEN 100 ELSE scaled)

UnknownIntent == Intent("unknown", 0)

\* the loop of _keyword_match over the keywords found in the text, in the order of
\* INTENT_KEYWORDS: a keyword replaces the best one only when its score, len(keyword) /
\* len(text), is strictly greater (for one text: when it is strictly longer)
NoMatch == [intent |-> "unknown", len |-> 0]

\* mutant: the first keyword found is kept
best_match_First(matches, best) == IF matches = <<>> THEN best ELSE Head(matches)

RECURSIVE best_match(_, _)
best_match(matches, best) ==
    IF matches = <<>> THEN best
    ELSE best_match(Tail(matches), IF Head(matches).len > best.len THEN Head(matches) ELSE best)

\* a text with the keywords it contains, as _keyword_match sees it
Scan(t) ==
    LET best == best_match(t.matches, NoMatch)
    IN Utterance(t.text, t.len, best.intent, best.len)

\* mutant: a failed LLM call yields the default confidence of a reply (0.5)
llm_parse_DefaultOnFailure(reply) ==
    IF reply.ok
    THEN Intent(IF reply.type \in IntentType THEN reply.type ELSE "unknown", reply.conf)
    ELSE Intent("unknown", 50)

\* _llm_parse: the reply of generate_json, or (except branch) its failure
llm_parse(reply) ==
    IF reply.ok
    THEN Intent(IF reply.type \in IntentType THEN reply.type ELSE "unknown", reply.conf)
    ELSE Intent("unknown", 0)

\* IntentParser.parse, llm: an LLM client is configured
parse(u, llm, reply) ==
    IF keyword_match(u).confidence > KEYWORD_CONFIDENCE_THRESHOLD THEN keyword_match(u)
    ELSE IF llm THEN llm_parse(reply)
    ELSE UnknownIntent

(***************************************************************************)
(* CoTAgent.process (src/agent/cot_agent.py)                               *)
(***************************************************************************)
\* intent_results carries the "type" of each intent dict
rule_based_process(u) ==
    LET intent == parse(u, FALSE, [ok |-> FALSE, type |-> "unknown", conf |-> 0])
    IN AgentResponse(<<"recognised intent", intent.type>>, <<intent.type>>, <<>>, FALSE)

llm_process(u, reply) ==
    IF reply.ok THEN AgentResponse(reply.content, reply.intents, <<>>, FALSE)
    ELSE rule_based_process(u)

cot_process(u, llm, reply) ==
    IF llm THEN llm_process(u, reply) ELSE rule_based_process(u)

\* stand-alone calls of IntentParser.parse and CoTAgent.process: the input, whether an
\* LLM client is configured, what generate_json answers, and the result
NoUtterance == Utterance("", 1, "unknown", 0)
NoParseReply == [ok |-> FALSE, type |-> "unknown", conf |-> 0]
NoCotReply == [ok |-> FALSE, intents |-> <<>>, content |-> <<>>]
FallbackIdle ==
    [parser |-> [called |-> FALSE, u |-> NoUtterance, matches |-> <<>>, llm |-> FALSE,
                 reply |-> NoParseReply, result |-> UnknownIntent],
     cot |-> [called |-> FALSE, u |-> NoUtterance, llm |-> FALSE, reply |-> NoCotReply,
              result |-> NoResponse]]

(***************************************************************************)
(* MemoryManager / ShortTermMemory (src/memory)                            *)
(***************************************************************************)
\* ShortTermMemory.add: items older than the TTL (a prefix of the list, n items) are
\* dropped, then the new item is appended
memory_add_Front(memory, n, role, content) ==
    <<[role |-> role, content |-> content]>> \o SubSeq(memory, n + 1, Len(memory))
memory_add(memory, n, role, content) ==
    Append(SubSeq(memory, n + 1, Len(memory)), [role |-> role, content |-> content])

(***************************************************************************)
(* AgentDispatcher.process (src/agent/dispatcher.py)                       *)
(***************************************************************************)
\* f"操作被阻止: {blocked_reason}"
BlockedPrefix == "operation blocked:"
\* f"[需要确认] {content}"
ConfirmPrefix == "[needs confirmation]"

\* memory_fails: the Memory collaborator is one whose calls can raise
DispIdle(llm) ==
    [pc |-> "idle", llm |-> llm, memory_fails |-> FALSE, calls |-> 0, memory |-> <<>>,
     user_input |-> <<>>, ds |-> "parked", intent |-> UnknownIntent,
     safety_result |-> Safe(<<>>), path |-> "none",
     cot_invoked |-> FALSE, plan_invoked |-> FALSE, cot_response |-> NoResponse,
     response |-> NoResponse]

\* steps 7 and 8 without the marker in front of the content
Finish_FlagOnly(d, response, n) ==
    LET final == IF d.safety_result.requires_confirmation
                 THEN [response EXCEPT !.requires_confirmation = TRUE]
                 ELSE response
    IN [d EXCEPT !.pc = "done", !.response = final,
                 !.memory = memory_add(d.memory, n, "assistant", final.content)]

\* steps 7 and 8: the confirmation marker, then the response recorded in memory
Finish(d, response, n) ==
    LET final == IF d.safety_result.requires_confirmation
                 THEN [response EXCEPT !.requires_confirmation = TRUE,
                                       !.content = <<ConfirmPrefix>> \o @]
                 ELSE response
    IN [d EXCEPT !.pc = "done", !.response = final,
                 !.memory = memory_add(d.memory, n, "assistant", final.content)]

\* step 2: "if not safety_result.is_safe"
Blocked_Never(safety_result) == FALSE
Blocked(safety_result) == ~safety_result.is_safe

\* step 5: "if intent.confidence >= self.fast_path_threshold"
FastPath_Strict(intent) == intent.confidence > DEFAULT_FAST_PATH_THRESHOLD
FastPath(intent) == intent.confidence >= DEFAULT_FAST_PATH_THRESHOLD

\* the calls of the Memory collaborator in process, and "none": which of them raises
MemoryCalls == {"add_user_message", "get_context", "add_assistant_message"}
MemoryFaults(d) == IF d.memory_fails THEN MemoryCalls \cup {"none"} ELSE {"none"}

\* process has no try around its Memory calls: the exception leaves process
Raised(d) == [d EXCEPT !.pc = "raised", !.response = NoResponse]

\* process from its entry to its return or to the call of the orchestrator; the locals
\* of an earlier call (its graph, its orchestrator run) are gone when a call begins
\* (n1, n2: the items the two memory writes find expired; fault: the Memory call that
\* raises, if process reaches it)
disp_begin(u, driving_state, parse_reply, cot_reply, n1, n2, fault) ==
    LET intent == parse(u, disp.llm, parse_reply)
        safety_result == check(cfg, intent, driving_state)
        d1 == [disp EXCEPT !.calls = @ + 1,
                           !.memory = memory_add(@, n1, "user", <<u.text>>),
                           !.user_input = <<u.text>>, !.ds = driving_state,
                           !.intent = intent, !.safety_result = safety_result,
                           !.cot_invoked = FALSE, !.plan_invoked = FALSE,
                           !.cot_response = NoResponse, !.response = NoResponse]
        cot_response == cot_process(u, disp.llm, cot_reply)
    IN IF fault = "add_user_message"
       THEN /\ disp' = Raised([disp EXCEPT !.calls = @ + 1, !.user_input = <<u.text>>,
                                            !.ds = driving_state, !.path = "none",
                                            !.cot_invoked = FALSE, !.plan_invoked = FALSE,
                                            !.cot_response = NoResponse])
            /\ pe' = PeIdle
            /\ graph' = EmptyGraph
       ELSE IF \/ fault = "add_assistant_message" /\ Blocked(safety_result)
               \/ fault = "get_context" /\ ~Blocked(safety_result)
               \/ /\ fault = "add_assistant_message" /\ ~Blocked(safety_result)
                  /\ ~FastPath(intent)
                  /\ cot_response.intent_results = <<>>
       THEN /\ disp' = Raised([d1 EXCEPT
                   !.path = IF Blocked(safety_result) THEN "blocked" ELSE "none",
                   !.cot_invoked = (fault = "add_assistant_message" /\ ~Blocked(safety_result)),
                   !.cot_response = IF fault = "add_assistant_message" /\ ~Blocked(safety_result)
                                    THEN cot_response ELSE NoResponse])
            /\ pe' = PeIdle
            /\ graph' = EmptyGraph
       ELSE IF Blocked(safety_result)
       THEN /\ disp' = [d1 EXCEPT
                   !.pc = "done", !.path = "blocked",
                   !.response = AgentResponse(<<BlockedPrefix>> \o safety_result.blocked_reason,
                                              <<>>, <<>>, FALSE),
                   !.memory = memory_add(@, n2, "assistant",
                                         <<BlockedPrefix>> \o safety_result.blocked_reason)]
            /\ pe' = PeIdle
            /\ graph' = EmptyGraph
       ELSE IF FastPath(intent)
       THEN /\ disp' = [d1 EXCEPT !.pc = "plan", !.path = "fast", !.plan_invoked = TRUE]
            /\ pe_begin(<<intent.type>>, driving_state, TRUE)
       ELSE IF cot_response.intent_results # <<>>
       THEN /\ disp' = [d1 EXCEPT !.pc = "plan", !.path = "deep", !.cot_invoked = TRUE,
                                  !.plan_invoked = TRUE, !.cot_response = cot_response]
            /\ pe_begin(cot_response.intent_results, driving_state, TRUE)
       ELSE /\ disp' = Finish([d1 EXCEPT !.path = "deep", !.cot_invoked = TRUE,
                                          !.cot_response = cot_response],
                              cot_response, n2)
            /\ pe' = PeIdle
            /\ graph' = EmptyGraph

\* the orchestrator has returned: steps 7 and 8, and the return
disp_return(n, fault) ==
    /\ disp.pc = "plan" /\ pe.pc = "done"
    /\ disp' = IF fault = "add_assistant_message" THEN Raised(disp)
               ELSE Finish(disp, pe.response, n)
    /\ UNCHANGED <<graph, pe>>

\* inputs of the dispatcher
Utterances ==
    {Utterance("play music", 10, "play_music", 10),
     Utterance("navigate to the airport", 23, "navigate_to", 11),
     Utterance("emergency", 9, "emergency_call", 9),
     Utterance("would you play music for the kids in the back seat", 50, "play_music", 10),
     Utterance("would you play music for the kids in the back seat now", 54, "play_music", 10),
     Utterance("xyzabc", 6, "unknown", 0)}
ParseReplies ==
    {[ok |-> FALSE, type |-> "unknown", conf |-> 0],
     [ok |-> TRUE, type |-> "play_music", conf |-> 90],
     [ok |-> TRUE, type |-> "watch_video", conf |-> 70],
     [ok |-> TRUE, type |-> "navigate_to", conf |-> 30]}
CotReplies ==
    {[ok |-> FALSE, intents |-> <<>>, content |-> <<>>],
     [ok |-> TRUE, intents |-> <<>>, content |-> <<"how can I help">>],
     [ok |-> TRUE, intents |-> <<"play_music">>, content |-> <<"playing">>],
     [ok |-> TRUE, intents |-> <<"emergency_call", "navigate_to">>, content |-> <<"on it">>]}

\* what generate_json answers when it is called: parse calls it only for a text the
\* keywords do not decide, and nobody calls it when no LLM client is configured
ParseRepliesFor(u, llm) ==
    IF llm /\ keyword_match(u).confidence <= KEYWORD_CONFIDENCE_THRESHOLD
    THEN ParseReplies ELSE {NoParseReply}
CotRepliesFor(llm) == IF llm THEN CotReplies ELSE {NoCotReply}

InitDisp ==
    /\ graph = EmptyGraph
    /\ running = {}
    /\ cfg \in PlanConfigs
    /\ req = NoReq
    /\ verdict = Safe(<<>>)
    /\ pe = PeIdle
    /\ \E llm \in BOOLEAN : disp = DispIdle(llm)
    /\ fallback = FallbackIdle

DispCall ==
    /\ disp.pc \in {"idle", "done", "raised"} /\ disp.calls < MaxCalls
    /\ \E u \in Utterances, ds \in PlanDrivingStates, fault \in MemoryFaults(disp) :
          \E parse_reply \in ParseRepliesFor(u, disp.llm),
             cot_reply \in CotRepliesFor(disp.llm) :
             \E n1 \in 0..Len(disp.memory) : \E n2 \in 0..(Len(disp.memory) - n1 + 1) :
                disp_begin(u, ds, parse_reply, cot_reply, n1, n2, fault)
    /\ UNCHANGED <<running, safetyVars, fallback>>
DispExecuteOk ==
    /\ disp.pc = "plan" /\ pe_execute_ok
    /\ UNCHANGED <<running, safetyVars, disp, fallback>>
DispExecuteRaise ==
    /\ disp.pc = "plan" /\ \E error \in HandlerErrors : pe_execute_raise(error)
    /\ UNCHANGED <<running, safetyVars, disp, fallback>>
DispSkip ==
    /\ disp.pc = "plan" /\ pe_skip
    /\ UNCHANGED <<running, safetyVars, disp, fallback>>
DispPlanReturn ==
    /\ disp.pc = "plan" /\ pe_return
    /\ UNCHANGED <<running, safetyVars, disp, fallback>>
DispReturn ==
    /\ \E n \in 0..Len(disp.memory), fault \in MemoryFaults(disp) \ {"add_user_message",
                                                                       "get_context"} :
          disp_return(n, fault)
    /\ UNCHANGED <<running, safetyVars, fallback>>

NextDisp == DispCall \/ DispExecuteOk \/ DispExecuteRaise \/ DispSkip \/ DispPlanReturn
               \/ DispReturn

SpecDisp == InitDisp /\ [][NextDisp]_vars

\* the dispatcher with a Memory collaborator whose calls can raise
InitFaults ==
    /\ graph = EmptyGraph
    /\ running = {}
    /\ cfg \in PlanConfigs
    /\ req = NoReq
    /\ verdict = Safe(<<>>)
    /\ pe = PeIdle
    /\ \E llm \in BOOLEAN : disp = [DispIdle(llm) EXCEPT !.memory_fails = TRUE]
    /\ fallback = FallbackIdle

SpecFaults == InitFaults /\ [][NextDisp]_vars

\* IntentParser.parse and CoTAgent.process called on their own
InitFallback ==
    /\ graph = EmptyGraph
    /\ running = {}
    /\ cfg = NoConfig
    /\ req = NoReq
    /\ verdict = Safe(<<>>)
    /\ pe = PeIdle
    /\ disp = DispIdle(FALSE)
    /\ fallback = FallbackIdle

\* texts given to a stand-alone IntentParser, each with the keywords of INTENT_KEYWORDS
\* it contains ("back" contains the keyword "AC" in lower case), in the order of the table
Match(intent, len) == [intent |-> intent, len |-> len]
ScannedText(text, len, matches) == [text |-> text, len |-> len, matches |-> matches]
ScannedTexts ==
    {ScannedText("play music", 10, <<Match("play_music", 10)>>),
     ScannedText("navigate to the airport", 23, <<Match("navigate_to", 11)>>),
     ScannedText("emergency", 9, <<Match("emergency_call", 9)>>),
     ScannedText("would you play music for the kids in the back seat", 50,
                 <<Match("play_music", 10), Match("set_temperature", 2),
                   Match("set_seat", 4)>>),
     ScannedText("would you play music for the kids in the back seat now", 54,
                 <<Match("play_music", 10), Match("set_temperature", 2),
                   Match("set_seat", 4)>>),
     ScannedText("xyzabc", 6, <<>>),
     ScannedText("i wonder whether you could play music once we are out of town this evening",
                 74, <<Match("play_music", 10)>>),
     ScannedText("play music and call mom", 23,
                 <<Match("make_call", 4), Match("play_music", 10)>>),
     ScannedText("call seat", 9, <<Match("make_call", 4), Match("set_seat", 4)>>)}

ParserParse ==
    /\ \E t \in ScannedTexts, llm \in BOOLEAN, reply \in ParseReplies :
          fallback' = [fallback EXCEPT !.parser =
                          [called |-> TRUE, u |-> Scan(t), matches |-> t.matches,
                           llm |-> llm, reply |-> reply,
                           result |-> parse(Scan(t), llm, reply)]]
    /\ UNCHANGED <<graph, running, safetyVars, pe, disp>>
CotProcess ==
    /\ \E u \in Utterances, llm \in BOOLEAN, reply \in CotReplies :
          fallback' = [fallback EXCEPT !.cot =
                          [called |-> TRUE, u |-> u, llm |-> llm, reply |-> reply,
                           result |-> cot_process(u, llm, reply)]]
    /\ UNCHANGED <<graph, running, safetyVars, pe, disp>>

NextFallback == ParserParse \/ CotProcess

SpecFallback == InitFallback /\ [][NextFallback]_vars

\* a stand-alone PlanExecuteAgent
InitPlan ==
    /\ graph = EmptyGraph
    /\ running = {}
    /\ cfg \in PlanConfigs
    /\ req = NoReq
    /\ verdict = Safe(<<>>)
    /\ pe = PeIdle
    /\ disp = DispIdle(FALSE)
    /\ fallback = FallbackIdle

PlanCall ==
    /\ pe.pc = "idle"
    /\ \E batch \in Batches, ds \in PlanDrivingStates, checker \in BOOLEAN :
          pe_begin(batch, ds, checker)
    /\ UNCHANGED <<running, safetyVars, disp, fallback>>
PlanExecuteOk ==
    /\ pe_execute_ok
    /\ UNCHANGED <<running, safetyVars, disp, fallback>>
PlanExecuteRaise ==
    /\ \E error \in HandlerErrors : pe_execute_raise(error)
    /\ UNCHANGED <<running, safetyVars, disp, fallback>>
PlanSkip ==
    /\ pe_skip
    /\ UNCHANGED <<running, safetyVars, disp, fallback>>
PlanReturn ==
    /\ pe_return
    /\ UNCHANGED <<running, safetyVars, disp, fallback>>

NextPlan == PlanCall \/ PlanExecuteOk \/ PlanExecuteRaise \/ PlanSkip \/ PlanReturn

SpecPlan == InitPlan /\ [][NextPlan]_vars

(***************************************************************************)
(* SchedulerConfig, TaskScheduler                                          *)
(***************************************************************************)
\* SchedulerConfig.max_parallel_tasks (configuration; the default is 5)
max_parallel_tasks == 1

get_domain_priority(domain) ==
    CASE domain = "safety" -> PrioCritical
      [] domain = "navigation" -> PrioHigh
      [] domain = "phone" -> PrioPhone
      [] domain = "vehicle_setting" -> PrioMedium
      [] domain = "music" -> PrioNormal
      [] OTHER -> PrioNormal

conflicting_domains == {"navigation", "music"}

\* mutant: conflict resolution spares running tasks
Conflicting_SparesRunning(g, id, domain) ==
    IF domain \in conflicting_domains
    THEN {x \in DOMAIN g.tasks :
            /\ g.tasks[x].domain = domain
            /\ g.tasks[x].status \in {PENDING, READY}
            /\ x # id}
    ELSE {}

\* the tasks _handle_conflicts cancels for a new task (id, domain)
Conflicting(g, id, domain) ==
    IF domain \in conflicting_domains
    THEN {x \in DOMAIN g.tasks :
            /\ g.tasks[x].domain = domain
            /\ g.tasks[x].status \in {PENDING, READY, RUNNING}
            /\ x # id}
    ELSE {}

\* the graph after _handle_conflicts
handle_conflicts(g, id, domain) ==
    [g EXCEPT !.tasks = [x \in DOMAIN g.tasks |->
        IF x \in Conflicting(g, id, domain) THEN mark_cancelled(g.tasks[x])
        ELSE g.tasks[x]]]

\* the priority submit_task gives the task
SubmitPriority(domain, priority) ==
    IF priority = PrioNormal THEN get_domain_priority(domain) ELSE priority

Take(seq, n) == SubSeq(seq, 1, IF n < Len(seq) THEN n ELSE Len(seq))

available_slots(run) == max_parallel_tasks - Cardinality(run)

\* mutant: the safety branch returns every ready safety task (no slot limit)
NextTasks_SafetyUnlimited(g, run) ==
    LET ready_tasks == get_ready_tasks(g)
        g2 == ReadyMarked(g)
        IsSafety(x) == g2.tasks[x].domain = "safety"
        safety_tasks == SelectSeq(ready_tasks, IsSafety)
    IN IF available_slots(run) <= 0 THEN <<>>
       ELSE IF safety_tasks # <<>> THEN safety_tasks
       ELSE Take(ready_tasks, available_slots(run))

\* mutant: no safety branch, the ready list is cut to the free slots
NextTasks_NoPreemption(g, run) ==
    IF available_slots(run) <= 0 THEN <<>>
    ELSE Take(get_ready_tasks(g), available_slots(run))

\* the list get_next_tasks returns
NextTasks(g, run) ==
    LET ready_tasks == get_ready_tasks(g)
        g2 == ReadyMarked(g)
        IsSafety(x) == g2.tasks[x].domain = "safety"
        safety_tasks == SelectSeq(ready_tasks, IsSafety)
    IN IF available_slots(run) <= 0 THEN <<>>
       ELSE IF safety_tasks # <<>> THEN Take(safety_tasks, available_slots(run))
       ELSE Take(ready_tasks, available_slots(run))

\* inputs of submit_task: a new task takes the next unused id (t1, t2, ...), an
\* existing id may be submitted again; a task depends on nothing or on its predecessor
SchedDomains == {"navigation", "safety"}
SubmitIds(g) == {id \in TaskIds : id <= Len(g.order) + 1}
DepChoices(id) == {{}} \cup {{d} : d \in {id - 1} \cap TaskIds}
Errors == {<<"boom">>}

InitSched ==
    /\ graph = EmptyGraph
    /\ running = {}
    /\ cfg = NoConfig
    /\ req = NoReq
    /\ verdict = Safe(<<>>)
    /\ pe = PeIdle
    /\ disp = DispIdle(FALSE)
    /\ fallback = FallbackIdle

submit_task(id, domain, priority, deps) ==
    /\ graph' = add_task(handle_conflicts(graph, id, domain), id,
                         Task(domain, "act", SubmitPriority(domain, priority), deps))
    /\ running' = running \ Conflicting(graph, id, domain)

get_next_tasks ==
    /\ graph' = IF available_slots(running) <= 0 THEN graph ELSE ReadyMarked(graph)
    /\ UNCHANGED running

start_task(id) ==
    /\ graph' = IF Has(graph, id)
                THEN [graph EXCEPT !.tasks[id] = mark_running(@)] ELSE graph
    /\ running' = IF Has(graph, id) THEN running \cup {id} ELSE running

sched_complete_task(id) ==
    /\ graph' = complete_task(graph, id)
    /\ running' = running \ {id}

sched_fail_task(id, error) ==
    /\ graph' = fail_task(graph, id, error)
    /\ running' = running \ {id}

SubmitTask ==
    /\ \E id \in SubmitIds(graph), d \in SchedDomains :
          \E deps \in DepChoices(id) : submit_task(id, d, PrioNormal, deps)
    /\ UNCHANGED <<safetyVars, pe, disp, fallback>>
GetNextTasks ==
    /\ get_next_tasks
    /\ UNCHANGED <<safetyVars, pe, disp, fallback>>
StartTask ==
    /\ \E id \in TaskIds : start_task(id)
    /\ UNCHANGED <<safetyVars, pe, disp, fallback>>
CompleteTask ==
    /\ \E id \in TaskIds : sched_complete_task(id)
    /\ UNCHANGED <<safetyVars, pe, disp, fallback>>
FailTask ==
    /\ \E id \in TaskIds, e \in Errors : sched_fail_task(id, e)
    /\ UNCHANGED <<safetyVars, pe, disp, fallback>>

Next == SubmitTask \/ GetNextTasks \/ StartTask \/ CompleteTask \/ FailTask

Spec == InitSched /\ [][Next]_vars

\* the scheduler driven with explicit priorities: a caller may give a task any priority,
\* and only TaskPriority.NORMAL is replaced by the priority of the domain
PriorityChoices ==
    {<<"navigation", PrioNormal>>, <<"navigation", PrioCritical>>,
     <<"safety", PrioNormal>>, <<"safety", PrioLow>>}

SubmitTaskWithPriority ==
    /\ \E id \in SubmitIds(graph), c \in PriorityChoices : submit_task(id, c[1], c[2], {})
    /\ UNCHANGED <<safetyVars, pe, disp, fallback>>

NextPrio == SubmitTaskWithPriority \/ GetNextTasks \/ StartTask \/ CompleteTask \/ FailTask

SpecPrio == InitSched /\ [][NextPrio]_vars

(***************************************************************************)
(* A TaskGraph driven directly by its owner                                *)
(***************************************************************************)
\* inputs: three task ids (added in the order 1, 2, 3; an id may be added again, which
\* replaces the task), a priority per id, at most MaxEdges dependency edges
GraphIds == {1, 2, 3}
AddIds(g) == {id \in GraphIds : id <= Len(g.order) + 1}
PriorityOf(id) == IF id = 1 THEN PrioNormal ELSE PrioHigh
EdgeCount(g) == Cardinality({p \in (DOMAIN g.tasks) \X GraphIds : p[2] \in g.tasks[p[1]].dependencies})

GraphAddTask ==
    /\ \E id \in AddIds(graph) :
          graph' = add_task(graph, id, Task("general", "act", PriorityOf(id), {}))
    /\ UNCHANGED <<running, safetyVars, pe, disp, fallback>>
GraphAddDependency ==
    /\ \E id \in GraphIds, depends_on \in GraphIds :
          /\ EdgeCount(add_dependency(graph, id, depends_on)) <= MaxEdges
          /\ graph' = add_dependency(graph, id, depends_on)
    /\ UNCHANGED <<running, safetyVars, pe, disp, fallback>>
GraphGetReadyTasks ==
    /\ graph' = ReadyMarked(graph)
    /\ UNCHANGED <<running, safetyVars, pe, disp, fallback>>
\* Task.mark_running, called by the owner of a task that get_ready_tasks handed out
GraphMarkRunning ==
    /\ \E id \in DOMAIN graph.tasks :
          /\ graph.tasks[id].status = READY
          /\ graph' = [graph EXCEPT !.tasks[id] = mark_running(@)]
    /\ UNCHANGED <<running, safetyVars, pe, disp, fallback>>
GraphCompleteTask ==
    /\ \E id \in GraphIds : graph' = complete_task(graph, id)
    /\ UNCHANGED <<running, safetyVars, pe, disp, fallback>>
GraphFailTask ==
    /\ \E id \in GraphIds, e \in Errors : graph' = fail_task(graph, id, e)
    /\ UNCHANGED <<running, safetyVars, pe, disp, fallback>>

NextGraph == GraphAddTask \/ GraphAddDependency \/ GraphGetReadyTasks \/ GraphMarkRunning
                \/ GraphCompleteTask \/ GraphFailTask

SpecGraph == InitSched /\ [][NextGraph]_vars

(***************************************************************************)
(* Task status state machine under the scheduler (C5 - C8, C10)            *)
(***************************************************************************)
Active == {PENDING, READY, RUNNING}

StatusOf(g, id) == g.tasks[id].status

\* the step is submit_task of a task with this id (what it stores under id tells its
\* domain and dependencies)
IsSubmitOf(id) ==
    /\ id \in SubmitIds(graph)
    /\ id \in DOMAIN graph'.tasks
    /\ graph'.tasks[id].status = PENDING
    /\ graph'.tasks[id].domain \in SchedDomains
    /\ graph'.tasks[id].dependencies \in DepChoices(id)
    /\ submit_task(id, graph'.tasks[id].domain, PrioNormal, graph'.tasks[id].dependencies)

\* the step replaces the task object stored under id by a newly submitted one
Resubmits(id) == IsSubmitOf(id)

\* the step is a submit_task of another task than id, in domain d
SubmitsOtherIn(id, d) ==
    \E n \in SubmitIds(graph) \ {id} : IsSubmitOf(n) /\ graph'.tasks[n].domain = d

ActiveIn(g, d) == {x \in DOMAIN g.tasks : g.tasks[x].domain = d /\ g.tasks[x].status \in Active}

\* C5: a task (the object stored in the graph, until a submission replaces it) whose
\* status is completed, failed or cancelled keeps that status in every step.
C5_TerminalIsForever ==
    [][\A id \in DOMAIN graph.tasks :
          (StatusOf(graph, id) \in Terminal /\ ~Resubmits(id))
              => StatusOf(graph', id) = StatusOf(graph, id)]_vars

\* C6 as stated: a task enters cancelled only from pending or ready.
C6_CancelledOnlyFromPendingOrReady ==
    [][\A id \in DOMAIN graph.tasks :
          (StatusOf(graph', id) = CANCELLED /\ StatusOf(graph, id) # CANCELLED)
              => StatusOf(graph, id) \in {PENDING, READY}]_vars

\* C6 amended: a task enters cancelled only from pending, ready or running; from
\* running only by the conflict resolution of a submit_task of another task of its
\* exclusivity domain, never by the cascade of fail_task.
C6_CancelSources ==
    [][\A id \in DOMAIN graph.tasks :
          (StatusOf(graph', id) = CANCELLED /\ StatusOf(graph, id) # CANCELLED)
              => \/ StatusOf(graph, id) \in {PENDING, READY}
                 \/ /\ StatusOf(graph, id) = RUNNING
                    /\ graph.tasks[id].domain \in conflicting_domains
                    /\ SubmitsOtherIn(id, graph.tasks[id].domain)
                    /\ ~FailTask]_vars

\* C6 witness: the cascade has cancelled a dependent of a failed task (the dependent is
\* in no exclusivity domain, so only fail_task can have cancelled it).
C6_Witness ==
    \E a \in DOMAIN graph.tasks, b \in DOMAIN graph.tasks :
        /\ StatusOf(graph, a) = FAILED
        /\ a \in graph.tasks[b].dependencies
        /\ StatusOf(graph, b) = CANCELLED
        /\ graph.tasks[b].domain \notin conflicting_domains

\* C7 as stated: at most one non-cancelled task per exclusivity domain.
C7_OneNonCancelledPerDomain ==
    \A d \in conflicting_domains :
        Cardinality({x \in DOMAIN graph.tasks :
            graph.tasks[x].domain = d /\ graph.tasks[x].status # CANCELLED}) <= 1

\* C7 amended: submit_task of a task in an exclusivity domain cancels every other task
\* of that domain that is pending, ready or running and leaves the others as they are,
\* so that right after it the submitted task is the only pending, ready or running
\* task of its domain.
C7_SubmitCancelsIncumbents ==
    [][\A id \in SubmitIds(graph) :
          (IsSubmitOf(id) /\ graph'.tasks[id].domain \in conflicting_domains)
              => LET d == graph'.tasks[id].domain
                 IN /\ ActiveIn(graph', d) = {id}
                    /\ \A x \in (DOMAIN graph.tasks) \ {id} :
                          graph.tasks[x].domain = d =>
                             StatusOf(graph', x) =
                                IF StatusOf(graph, x) \in Active THEN CANCELLED
                                ELSE StatusOf(graph, x)]_vars

\* C7 witness: a task of an exclusivity domain, with no dependency whose failure could
\* have cancelled it, is cancelled and a later task of the same domain is pending.
C7_Witness ==
    \E a \in DOMAIN graph.tasks, b \in DOMAIN graph.tasks :
        /\ a < b
        /\ graph.tasks[a].domain = graph.tasks[b].domain
        /\ graph.tasks[a].domain \in conflicting_domains
        /\ graph.tasks[a].dependencies = {}
        /\ StatusOf(graph, a) = CANCELLED
        /\ StatusOf(graph, b) = PENDING

\* C8: each exclusivity domain has at most one task that is pending, ready or running.
C8_OneActivePerDomain ==
    \A d \in conflicting_domains : Cardinality(ActiveIn(graph, d)) <= 1

FreeSlots(run) == IF available_slots(run) > 0 THEN available_slots(run) ELSE 0

StatusRunning(g) == {x \in DOMAIN g.tasks : g.tasks[x].status = RUNNING}

\* C10: in every reachable scheduler state get_next_tasks returns at most the number of
\* free slots (max_parallel_tasks minus the running tasks, counted by the running set
\* or by status), and the empty list when no slot is free.
C10_NextTasksWithinSlots ==
    /\ Len(NextTasks(graph, running)) <= FreeSlots(running)
    /\ Len(NextTasks(graph, running)) <= FreeSlots(StatusRunning(graph))
    /\ (max_parallel_tasks - Cardinality(running) <= 0 => NextTasks(graph, running) = <<>>)

\* C10 witness: a slot is free, more tasks are ready than slots are free, and
\* get_next_tasks returns exactly as many tasks as slots are free.
C10_Witness ==
    /\ available_slots(running) > 0
    /\ Len(get_ready_tasks(graph)) > available_slots(running)
    /\ Len(NextTasks(graph, running)) = available_slots(running)

(***************************************************************************)
(* The safety gate as a function of its inputs                             *)
(***************************************************************************)
InitSafety ==
    /\ graph = EmptyGraph
    /\ running = {}
    /\ cfg \in Configs
    /\ req = NoReq
    /\ verdict = Safe(<<>>)
    /\ pe = PeIdle
    /\ disp = DispIdle(FALSE)
    /\ fallback = FallbackIdle

SafetyCheck ==
    /\ \E intent \in CheckedIntents, ds \in DrivingStates :
          /\ req' = [intent |-> intent, ds |-> ds]
          /\ verdict' = check(cfg, intent, ds)
    /\ UNCHANGED <<graph, running, cfg, pe, disp, fallback>>

NextSafety == SafetyCheck

SpecSafety == InitSafety /\ [][NextSafety]_vars

Checked == req.ds # "none"

\* C3: every intent of the SAFETY domain is safe, for every driving state and every
\* configuration of the blocked and confirmation sets.
C3_SafetyDomainAlwaysSafe ==
    (Checked /\ req.intent.domain = "safety") => verdict.is_safe

\* C3 witness: a SAFETY intent whose action is in the blocked set was checked on the
\* highway and passed.
C3_Witness ==
    /\ Checked /\ req.intent.domain = "safety" /\ req.ds = "highway"
    /\ req.intent.type \in cfg.blocked
    /\ verdict.is_safe

\* C4 as stated: while driving or on the highway every intent whose action is in the
\* blocked set is rejected with a reason containing the action name.
C4_BlockedActionRejected ==
    (Checked /\ req.ds \in {"driving", "highway"} /\ req.intent.type \in cfg.blocked)
        => (~verdict.is_safe /\ Contains(verdict.blocked_reason, req.intent.type))

\* C4 amended: ... every intent outside the SAFETY domain whose action is in the
\* blocked set is rejected with a reason containing the action name.
C4_BlockedActionRejectedOutsideSafety ==
    (Checked /\ req.ds \in {"driving", "highway"} /\ req.intent.type \in cfg.blocked
        /\ req.intent.domain # "safety")
        => (~verdict.is_safe /\ Contains(verdict.blocked_reason, req.intent.type))

\* C4 witness: a blocked action outside the SAFETY domain was checked on the highway
\* and rejected.
C4_Witness ==
    /\ Checked /\ req.ds = "highway" /\ req.intent.type \in cfg.blocked
    /\ req.intent.domain # "safety"
    /\ ~verdict.is_safe

(***************************************************************************)
(* The dispatcher's safety gate (C1)                                       *)
(***************************************************************************)
DispVerdict == check(cfg, disp.intent, disp.ds)
LastMessage == disp.memory[Len(disp.memory)]

\* C1: whenever the safety gate rejects the primary intent of a call, the call has
\* returned at once with a response that begins with the blocked-operation prefix and
\* has no task results; no task was created, no handler was executed, neither the
\* deep-reasoning agent nor the orchestrator was invoked, and the content of the
\* response is the assistant message recorded last in memory.
C1_UnsafeIntentBlocked ==
    (disp.calls > 0 /\ ~DispVerdict.is_safe) =>
        /\ disp.pc = "done"
        /\ Head(disp.response.content) = BlockedPrefix
        /\ Tail(disp.response.content) = DispVerdict.blocked_reason
        /\ disp.response.task_results = <<>>
        /\ graph.order = <<>>
        /\ pe.pc = "idle" /\ pe.invoked = <<>>
        /\ ~disp.cot_invoked /\ ~disp.plan_invoked
        /\ disp.memory # <<>>
        /\ LastMessage = [role |-> "assistant", content |-> disp.response.content]

\* C1 witness: "play music" while driving, with play_music in the blocked set, was
\* answered with the blocked response.
C1_Witness ==
    /\ disp.calls > 0 /\ disp.pc = "done"
    /\ disp.ds = "driving" /\ disp.intent.type = "play_music"
    /\ "play_music" \in cfg.blocked
    /\ ~DispVerdict.is_safe
    /\ Head(disp.response.content) = BlockedPrefix

(***************************************************************************)
(* The orchestrator's batch (C2, C9)                                       *)
(***************************************************************************)
PeStarted == pe.pc \in {"exec", "done"}

InWaves(id) == \E w \in 1..Len(pe.waves) : \E k \in 1..Len(pe.waves[w]) : pe.waves[w][k] = id
Invoked(id) == \E i \in 1..Len(pe.invoked) : pe.invoked[i] = id
HasResult(id) == \E i \in 1..Len(pe.task_results) : pe.task_results[i].task = id
SuccessOf(id) == \E i \in 1..Len(pe.task_results) :
                    pe.task_results[i].task = id /\ pe.task_results[i].status = "success"

Unsafe(i) == ~check(cfg, IntentOf(pe.batch[i]), pe.ds).is_safe

\* C2: with a safety checker configured, every intent of the batch the safety gate
\* rejects is in the graph as a cancelled task whose error is the blocked reason, is in
\* no wave, has its handler never invoked and has no entry in task_results.
C2_UnsafeSubtaskCancelledNotRun ==
    (PeStarted /\ pe.checker) =>
        \A i \in 1..Len(pe.batch) :
            Unsafe(i) =>
                /\ Has(graph, i)
                /\ graph.tasks[i].status = CANCELLED
                /\ graph.tasks[i].error = check(cfg, IntentOf(pe.batch[i]), pe.ds).blocked_reason
                /\ graph.tasks[i].error # <<>>
                /\ ~InWaves(i)
                /\ ~Invoked(i)
                /\ ~HasResult(i)

\* C2 witness: the call has returned, one intent of the batch was rejected and another
\* one was executed.
C2_Witness ==
    /\ pe.pc = "done" /\ pe.checker
    /\ \E i, j \in 1..Len(pe.batch) : Unsafe(i) /\ SuccessOf(j)

\* C9: when the two intents of a batch both resolve to domain navigation (both pass the
\* safety gate and no handler raises), the first task is cancelled and only the second
\* produces a success result.
C9_SecondNavigationWins ==
    (/\ pe.pc = "done" /\ Len(pe.batch) = 2
     /\ \A i \in 1..2 : IntentOf(pe.batch[i]).domain = "navigation"
     /\ \A i \in 1..2 : ~(pe.checker /\ Unsafe(i))
     /\ \A i \in 1..Len(pe.task_results) : pe.task_results[i].status # "failed")
        => /\ graph.tasks[1].status = CANCELLED
           /\ ~SuccessOf(1)
           /\ SuccessOf(2)


(***************************************************************************)
(* Admission control and safety preemption (C11, C12)                      *)
(***************************************************************************)
\* C11: after any sequence of scheduler operations the number of running tasks never
\* exceeds max_parallel_tasks (starting a task takes a slot; completed, failed and
\* cancelled tasks free theirs).
C11_RunningWithinLimit ==
    /\ Cardinality(running) <= max_parallel_tasks
    /\ Cardinality({x \in DOMAIN graph.tasks : graph.tasks[x].status = RUNNING})
          <= max_parallel_tasks

\* the tasks get_ready_tasks finds ready: READY already, or PENDING with every dependency
\* in the completed set
ReadyIds(g) ==
    {x \in DOMAIN g.tasks :
        \/ g.tasks[x].status = READY
        \/ g.tasks[x].status = PENDING /\ g.tasks[x].dependencies \subseteq g.completed}
SafetyReadyIds(g) == {x \in ReadyIds(g) : g.tasks[x].domain = "safety"}
Returned(g, run) == {NextTasks(g, run)[i] : i \in 1..Len(NextTasks(g, run))}
Smaller(a, b) == IF a < b THEN a ELSE b

\* C12: when at least one ready task is of the safety domain, get_next_tasks returns
\* only safety tasks, as many as the free slots allow, whatever the priorities of the
\* other ready tasks; otherwise it returns the highest-priority ready tasks, as many as
\* the free slots allow.
C12_SafetyPreemption ==
    LET next == NextTasks(graph, running)
        ret == Returned(graph, running)
    IN /\ Cardinality(ret) = Len(next)
       /\ SafetyReadyIds(graph) # {} =>
             /\ ret \subseteq SafetyReadyIds(graph)
             /\ Len(next) = Smaller(FreeSlots(running), Cardinality(SafetyReadyIds(graph)))
       /\ SafetyReadyIds(graph) = {} =>
             /\ ret \subseteq ReadyIds(graph)
             /\ Len(next) = Smaller(FreeSlots(running), Cardinality(ReadyIds(graph)))
             /\ \A x \in ret, y \in ReadyIds(graph) \ ret :
                   graph.tasks[x].priority >= graph.tasks[y].priority
       /\ \A i, j \in 1..Len(next) :
             i < j => graph.tasks[next[i]].priority >= graph.tasks[next[j]].priority

\* C12 witness: a slot is free, a safety task is ready beside a ready task of another
\* domain with a higher priority, and get_next_tasks returns the safety task.
C12_Witness ==
    /\ FreeSlots(running) > 0
    /\ \E x \in SafetyReadyIds(graph), y \in ReadyIds(graph) \ SafetyReadyIds(graph) :
          /\ graph.tasks[y].priority > graph.tasks[x].priority
          /\ x \in Returned(graph, running)
          /\ y \notin Returned(graph, running)

(***************************************************************************)
(* The task graph (C13 - C17)                                              *)
(***************************************************************************)
Deps(g, x) == g.tasks[x].dependencies
InWave(ws, x) == \E w \in 1..Len(ws) : \E k \in 1..Len(ws[w]) : ws[w][k] = x
WaveIndex(ws, x) == CHOOSE w \in 1..Len(ws) : \E k \in 1..Len(ws[w]) : ws[w][k] = x

\* C13: in the waves of get_execution_order, a task that depends on another one is in
\* a strictly later wave than it when both appear, and two tasks whose only
\* prerequisite is the same task A (neither depends on the other) are in the same wave
\* - the wave after A's whenever A appears and neither is cancelled or failed.
C13_WavesRespectDependencies ==
    \A ws \in get_execution_order(graph) :
        /\ \A a, b \in DOMAIN graph.tasks :
              (a \in Deps(graph, b) /\ InWave(ws, a) /\ InWave(ws, b))
                 => WaveIndex(ws, a) < WaveIndex(ws, b)
        /\ \A a, b, c \in DOMAIN graph.tasks :
              (b # c /\ a # b /\ a # c /\ Deps(graph, b) = {a} /\ Deps(graph, c) = {a}) =>
                 /\ (InWave(ws, b) /\ InWave(ws, c)) => WaveIndex(ws, b) = WaveIndex(ws, c)
                 /\ (InWave(ws, a) /\ {b, c} \subseteq Remaining(graph)) =>
                       /\ InWave(ws, b) /\ InWave(ws, c)
                       /\ WaveIndex(ws, b) = WaveIndex(ws, a) + 1
                       /\ WaveIndex(ws, c) = WaveIndex(ws, a) + 1

\* C13 witness: tasks 2 and 3 depend on task 1 only, and the waves are task 1, then
\* tasks 2 and 3 together.
C13_Witness ==
    /\ DOMAIN graph.tasks = {1, 2, 3}
    /\ Deps(graph, 1) = {} /\ Deps(graph, 2) = {1} /\ Deps(graph, 3) = {1}
    /\ \E ws \in get_execution_order(graph) :
          Len(ws) = 2 /\ ws[1] = <<1>> /\ Len(ws[2]) = 2

\* C14: in every reachable graph state, a second call of get_ready_tasks right after a
\* first one returns the same tasks in the same order (and changes nothing).
C14_ReadyTasksIdempotent ==
    /\ get_ready_tasks(ReadyMarked(graph)) = get_ready_tasks(graph)
    /\ ReadyMarked(ReadyMarked(graph)) = ReadyMarked(graph)

\* C14 witness: a call has already turned a task ready, the next call turns another one
\* ready and returns both.
C14_Witness ==
    /\ \E x \in DOMAIN graph.tasks : graph.tasks[x].status = READY
    /\ ReadyMarked(graph) # graph
    /\ Len(get_ready_tasks(graph)) >= 2

\* C15: get_ready_tasks returns exactly the tasks whose status is pending or ready and
\* whose dependencies are all in the completed set; every returned task has all its
\* dependencies completed and has status ready after the call, and the list is in
\* descending order of priority.
C15_ReadyTasksExact ==
    LET ready == get_ready_tasks(graph)
        after == ReadyMarked(graph)
        ret == {ready[i] : i \in 1..Len(ready)}
    IN /\ ret = {x \in DOMAIN graph.tasks :
                    /\ graph.tasks[x].status \in {PENDING, READY}
                    /\ Deps(graph, x) \subseteq graph.completed}
       /\ \A x \in ret : Deps(graph, x) \subseteq graph.completed
       /\ \A x \in ret : after.tasks[x].status = READY
       /\ \A i, j \in 1..Len(ready) :
             i < j => after.tasks[ready[i]].priority >= after.tasks[ready[j]].priority

\* the step is fail_task(id, error) on a task of the graph
IsFailOf(id, error) == Has(graph, id) /\ graph' = fail_task(graph, id, error)

\* C16: fail_task(id, error) marks the task failed with that error and cancels exactly
\* its direct dependents that are pending or ready; every other task (transitive
\* dependents, running or terminal dependents, unrelated tasks) is left as it is, and
\* the completed set does not change.
C16_FailTaskFrame ==
    [][\A id \in GraphIds, error \in Errors :
          IsFailOf(id, error) =>
             /\ graph'.tasks[id] = [graph.tasks[id] EXCEPT !.status = FAILED, !.error = error]
             /\ \A x \in DOMAIN graph.tasks \ {id} :
                   IF id \in Deps(graph, x) /\ graph.tasks[x].status \in {PENDING, READY}
                   THEN graph'.tasks[x] = [graph.tasks[x] EXCEPT !.status = CANCELLED]
                   ELSE graph'.tasks[x] = graph.tasks[x]
             /\ DOMAIN graph'.tasks = DOMAIN graph.tasks
             /\ graph'.completed = graph.completed
             /\ graph'.order = graph.order]_vars

\* C16 witness: task 1 has failed with its error, its direct dependent task 2 is
\* cancelled, and task 3, which depends on task 2, is still pending.
C16_Witness ==
    /\ DOMAIN graph.tasks = {1, 2, 3}
    /\ Deps(graph, 2) = {1} /\ Deps(graph, 3) = {2}
    /\ graph.tasks[1].status = FAILED /\ graph.tasks[1].error \in Errors
    /\ graph.tasks[2].status = CANCELLED
    /\ graph.tasks[3].status = PENDING

\* C17: add_dependency with an id that is not in the graph changes nothing (no
\* dependency list, no status, not the completed set), so every dependency a task holds
\* is the id of a task of the graph.
C17_AddDependencyIgnoresAbsentIds ==
    /\ \A id \in GraphIds, depends_on \in GraphIds :
          (~Has(graph, id) \/ ~Has(graph, depends_on))
             => add_dependency(graph, id, depends_on) = graph
    /\ \A x \in DOMAIN graph.tasks : Deps(graph, x) \subseteq DOMAIN graph.tasks

\* C17 witness: task 2 depends on task 1, task 3 is not in the graph, and
\* add_dependency of either task on task 3 leaves the graph as it is.
C17_Witness ==
    /\ DOMAIN graph.tasks = {1, 2}
    /\ Deps(graph, 2) = {1}
    /\ add_dependency(graph, 1, 3) = graph
    /\ add_dependency(graph, 3, 1) = graph

(***************************************************************************)
(* Failure of the LLM collaborator (C19)                                   *)
(***************************************************************************)
\* C19: when generate_json fails, IntentParser.parse and CoTAgent.process return what
\* they return for the same input when no LLM client is configured.
C19_LlmFailureFallsBack ==
    /\ (fallback.parser.called /\ fallback.parser.llm /\ ~fallback.parser.reply.ok) =>
          fallback.parser.result = parse(fallback.parser.u, FALSE, NoParseReply)
    /\ (fallback.cot.called /\ fallback.cot.llm /\ ~fallback.cot.reply.ok) =>
          fallback.cot.result = cot_process(fallback.cot.u, FALSE, NoCotReply)

\* C19 witness: with an LLM client configured and failing, parse was asked about a text
\* no keyword decides and answered UNKNOWN, and the chain-of-thought agent answered with
\* the intent the keywords give.
C19_Witness ==
    /\ fallback.parser.called /\ fallback.parser.llm /\ ~fallback.parser.reply.ok
    /\ keyword_match(fallback.parser.u).confidence <= KEYWORD_CONFIDENCE_THRESHOLD
    /\ fallback.parser.result.type = "unknown"
    /\ fallback.cot.called /\ fallback.cot.llm /\ ~fallback.cot.reply.ok
    /\ fallback.cot.result.intent_results = <<"play_music">>

(***************************************************************************)
(* Collaborator failure in the dispatcher (C18)                            *)
(***************************************************************************)
\* C18: process never raises to the caller, whatever the utterance and the driving
\* state, and whether the LLM collaborator, the Memory collaborator or a task handler
\* fails: every call that has ended has returned a response.
C18_ProcessNeverRaises ==
    /\ disp.pc # "raised"
    /\ (disp.calls > 0 /\ disp.pc # "plan") => disp.response # NoResponse

(***************************************************************************)
(* Failure isolation in the orchestrator (C20)                             *)
(***************************************************************************)
\* the step appends a failed entry to task_results: a handler has raised
HandlerRaised ==
    /\ Len(pe'.task_results) = Len(pe.task_results) + 1
    /\ pe'.task_results[Len(pe'.task_results)].status = "failed"
LastResult(p) == p.task_results[Len(p.task_results)]
ResultsOf(id) == {i \in 1..Len(pe.task_results) : pe.task_results[i].task = id}

\* a handler exception fails that task only, with the text of the exception, and adds
\* one failed entry; completed siblings stay completed, only the pending or ready
\* tasks that depend on it are cancelled, and the walk through the waves goes on
RaiseIsIsolated ==
    HandlerRaised =>
        LET id == LastResult(pe').task
        IN /\ id = PeCurrent
           /\ SubSeq(pe'.task_results, 1, Len(pe.task_results)) = pe.task_results
           /\ graph'.tasks[id].status = FAILED
           /\ graph'.tasks[id].error = LastResult(pe').error
           /\ LastResult(pe').error \in HandlerErrors
           /\ \A x \in DOMAIN graph.tasks \ {id} :
                 IF id \in Deps(graph, x) /\ graph.tasks[x].status \in {PENDING, READY}
                 THEN graph'.tasks[x].status = CANCELLED
                 ELSE graph'.tasks[x] = graph.tasks[x]
           /\ pe'.pc = "exec"
           /\ pe'.waves = pe.waves
           /\ <<pe'.w, pe'.k>> = <<PeAdvance(pe).w, PeAdvance(pe).k>>

\* when the call has returned: every task of the waves either was executed (one entry
\* in task_results) or was cancelled because a task it depends on failed
BatchNotAborted ==
    pe.pc = "done" =>
        \A id \in DOMAIN graph.tasks :
            /\ Cardinality(ResultsOf(id)) <= 1
            /\ InWaves(id) =>
                  \/ /\ HasResult(id) /\ Invoked(id)
                     /\ graph.tasks[id].status \in {COMPLETED, FAILED}
                     /\ SuccessOf(id) <=> graph.tasks[id].status = COMPLETED
                  \/ /\ ~HasResult(id) /\ ~Invoked(id)
                     /\ graph.tasks[id].status = CANCELLED
                     /\ \E d \in Deps(graph, id) : graph.tasks[d].status = FAILED

\* C20: a handler exception marks only that task failed, with the exception text as its
\* error, and adds one failed entry to task_results; every other task of the same and
\* of later waves that does not depend on it is still executed, completed siblings stay
\* completed, and the batch is never aborted.
C20_HandlerFailureIsolated == [][RaiseIsIsolated]_vars /\ []BatchNotAborted

\* C20 witness: the call has returned; the handler of the first task of a wave raised,
\* the task is failed with that text, and the next task of the wave was executed and is
\* completed.
C20_Witness ==
    /\ pe.pc = "done" /\ Len(pe.task_results) = 2 /\ Len(pe.waves) = 1
    /\ pe.task_results[1].status = "failed"
    /\ pe.task_results[2].status = "success"
    /\ graph.tasks[pe.task_results[1].task].status = FAILED
    /\ graph.tasks[pe.task_results[1].task].error = pe.task_results[1].error
    /\ graph.tasks[pe.task_results[2].task].status = COMPLETED


(***************************************************************************)
(* Confirmation of executed sub-tasks (C21)                                *)
(***************************************************************************)
\* the verdict the orchestrator's safety gate gave on the i-th intent of the batch
SubtaskVerdict(i) == check(cfg, IntentOf(pe.batch[i]), pe.ds)

\* C21: when a call that ran the orchestrator has returned, and a sub-task that was
\* executed has a safety verdict with requires_confirmation set, the response returned
\* to the caller has requires_confirmation set, on the fast and on the deep path.
C21_ConfirmationFlagsCaller ==
    (disp.pc = "done" /\ disp.plan_invoked /\ pe.checker) =>
        \A i \in 1..Len(pe.batch) :
            (HasResult(i) /\ SubtaskVerdict(i).requires_confirmation) =>
                disp.response.requires_confirmation


(***************************************************************************)
(* The confirmation marker of the dispatcher (C22)                         *)
(***************************************************************************)
\* the content the path of the call produced: the orchestrator's when it ran, the
\* deep-reasoning agent's otherwise
ProducedContent ==
    IF disp.plan_invoked THEN pe.response.content ELSE disp.cot_response.content

\* C22: when a call has returned and the safety verdict on its primary intent requires
\* confirmation, the response has requires_confirmation set, its content is the
\* confirmation marker followed by the content the path produced (fast path, deep path
\* with or without intents), and the assistant message recorded last in memory carries
\* that prefixed content.
C22_ConfirmationMarksResponse ==
    (disp.pc = "done" /\ DispVerdict.requires_confirmation) =>
        /\ disp.path \in {"fast", "deep"}
        /\ disp.response.requires_confirmation
        /\ disp.response.content = <<ConfirmPrefix>> \o ProducedContent
        /\ disp.memory # <<>>
        /\ LastMessage = [role |-> "assistant", content |-> disp.response.content]

\* C22 witness: a call whose primary intent requires confirmation has returned on the
\* deep path without intents, with the marker in front of the agent's content.
C22_Witness ==
    /\ disp.pc = "done" /\ DispVerdict.requires_confirmation
    /\ disp.path = "deep" /\ disp.cot_invoked /\ ~disp.plan_invoked
    /\ disp.cot_response.content # <<>>
    /\ Head(disp.response.content) = ConfirmPrefix

\* C22, fast path: the primary intent requires confirmation and the orchestrator ran it
C22_WitnessFast ==
    /\ disp.pc = "done" /\ DispVerdict.requires_confirmation
    /\ disp.path = "fast" /\ Len(pe.task_results) = 1
    /\ Head(disp.response.content) = ConfirmPrefix


(***************************************************************************)
(* Path selection of the dispatcher (C23)                                  *)
(***************************************************************************)
\* C23: in a call whose primary intent passed the safety gate, the fast path is taken
\* exactly when the classified confidence is at least 0.6; on the fast path the
\* orchestrator got the primary intent as its only intent and the deep-reasoning agent
\* was not invoked; otherwise the deep-reasoning agent was invoked, the orchestrator got
\* its intents when it returned some, and when it returned none its response was
\* returned (with the confirmation marker when due) and no task was built.
C23_PathSelection ==
    (disp.pc \in {"plan", "done"} /\ DispVerdict.is_safe) =>
        /\ disp.path \in {"fast", "deep"}
        /\ (disp.path = "fast") <=> (10 * disp.intent.confidence >= 6 * 100)
        /\ (disp.path = "fast") =>
              /\ ~disp.cot_invoked /\ disp.plan_invoked
              /\ disp.cot_response = NoResponse
              /\ pe.pc # "idle"
              /\ pe.batch = <<disp.intent.type>>
        /\ (disp.path = "deep") =>
              /\ disp.cot_invoked
              /\ disp.plan_invoked <=> (disp.cot_response.intent_results # <<>>)
              /\ disp.plan_invoked =>
                    /\ pe.pc # "idle"
                    /\ pe.batch = disp.cot_response.intent_results
              /\ ~disp.plan_invoked =>
                    /\ disp.pc = "done"
                    /\ pe = PeIdle /\ graph = EmptyGraph
                    /\ disp.response.intent_results = <<>>
                    /\ disp.response.task_results = <<>>
                    /\ disp.response.content =
                          IF DispVerdict.requires_confirmation
                          THEN <<ConfirmPrefix>> \o disp.cot_response.content
                          ELSE disp.cot_response.content

\* C23 witness: a call classified with confidence exactly 0.6 took the fast path with
\* one intent, the deep-reasoning agent not invoked.
C23_Witness ==
    /\ disp.pc = "done" /\ DispVerdict.is_safe
    /\ disp.intent.confidence = 60 /\ disp.path = "fast"
    /\ Len(pe.batch) = 1 /\ ~disp.cot_invoked

\* C23, deep path: a call classified below 0.6 went through the deep-reasoning agent,
\* whose two intents the orchestrator ran
C23_WitnessDeep ==
    /\ disp.pc = "done" /\ DispVerdict.is_safe
    /\ disp.intent.confidence = 55 /\ disp.path = "deep"
    /\ Len(pe.batch) = 2 /\ disp.cot_invoked

\* C23, deep path without intents: the agent's response was returned, no task built
C23_WitnessNoIntent ==
    /\ disp.pc = "done" /\ DispVerdict.is_safe
    /\ disp.path = "deep" /\ ~disp.plan_invoked
    /\ disp.response.content = disp.cot_response.content
    /\ disp.response.content # <<>>


(***************************************************************************)
(* The messages a call records in memory (C24)                             *)
(***************************************************************************)
Alternating(memory) ==
    \A i \in 1..(Len(memory) - 1) : memory[i].role # memory[i + 1].role

HasWarning(result, warning) ==
    \E i \in 1..Len(result.warnings) : result.warnings[i] = warning

\* C25: the verdict on every intent of the NAVIGATION domain checked with driving state
\* highway contains the highway warning, whether the action passed, was blocked or
\* requires confirmation.
C25_HighwayWarningAlways ==
    (Checked /\ req.intent.domain = "navigation" /\ req.ds = "highway")
        => HasWarning(verdict, HighwayWarning)

\* C26: for driving state parked and an intent outside the SAFETY domain the verdict is
\* safe, requires no confirmation and has no warnings, whatever the blocked and the
\* confirmation sets contain.
C26_ParkedPassesWithoutFlags ==
    (Checked /\ req.ds = "parked" /\ req.intent.domain # "safety") =>
        /\ verdict.is_safe
        /\ ~verdict.requires_confirmation
        /\ verdict.warnings = <<>>
        /\ verdict.blocked_reason = <<>>

\* C26 witness: an intent outside the SAFETY domain whose action is in the blocked set
\* and whose domain is NAVIGATION was checked while parked and passed without flags.
C26_Witness ==
    /\ Checked /\ req.ds = "parked" /\ req.intent.domain = "navigation"
    /\ req.intent.type \in cfg.blocked
    /\ cfg.confirm # {}
    /\ verdict = Safe(<<>>)

\* C26, confirmation set: an action of the confirmation set passed while parked
C26_WitnessConfirm ==
    /\ Checked /\ req.ds = "parked" /\ req.intent.domain # "safety"
    /\ req.intent.type \in cfg.confirm
    /\ verdict = Safe(<<>>)


(***************************************************************************)
(* The order of execution in the orchestrator (C27, C28)                   *)
(***************************************************************************)
BatchDomain(i) == IntentOf(pe.batch[i]).domain
InvokedAt(id) == CHOOSE i \in 1..Len(pe.invoked) : pe.invoked[i] = id

\* C27: in a batch with SAFETY and non-SAFETY intents, in whatever order, every
\* non-SAFETY task depends on every SAFETY task; every SAFETY task is in a wave, an
\* earlier one than any non-SAFETY task's, and a non-SAFETY task's handler is invoked
\* only after the handler of every SAFETY task was invoked and its task has finished.
C27_SafetyTasksFirst ==
    PeStarted =>
        \A i, j \in 1..Len(pe.batch) :
            (BatchDomain(i) = "safety" /\ BatchDomain(j) # "safety") =>
                /\ i \in Deps(graph, j)
                /\ InWaves(i)
                /\ InWaves(j) => WaveIndex(pe.waves, i) < WaveIndex(pe.waves, j)
                /\ Invoked(j) =>
                      /\ Invoked(i) /\ InvokedAt(i) < InvokedAt(j)
                      /\ HasResult(i)
                      /\ graph.tasks[i].status \in {COMPLETED, FAILED}

\* C27 witness: the SAFETY intent came second in the batch, and its task was executed
\* first, the other task after it.
C27_Witness ==
    /\ pe.pc = "done" /\ Len(pe.batch) = 2
    /\ BatchDomain(1) # "safety" /\ BatchDomain(2) = "safety"
    /\ pe.invoked = <<2, 1>>
    /\ pe.waves = <<<<2>>, <<1>>>>

\* C28: a task's handler is invoked only when every task of every earlier wave is in a
\* terminal state (completed, failed or cancelled).
C28_WaveBarrier ==
    PeStarted =>
        \A a, b \in DOMAIN graph.tasks :
            (/\ InWaves(a) /\ InWaves(b)
             /\ WaveIndex(pe.waves, a) < WaveIndex(pe.waves, b)
             /\ Invoked(b))
                => graph.tasks[a].status \in Terminal

\* C28 witness: the task of the second wave was executed (its handler raised) after
\* the first wave's task had completed.
C28_Witness ==
    /\ PeStarted /\ Len(pe.waves) = 2
    /\ Invoked(pe.waves[2][1])
    /\ graph.tasks[pe.waves[1][1]].status = COMPLETED
    /\ graph.tasks[pe.waves[2][1]].status = FAILED


(***************************************************************************)
(* The confidence of a keyword match (C29)                                 *)
(***************************************************************************)
\* the length of the longest keyword found in the text: the best score is its length
\* divided by the length of the text
LongestKeyword(matches) ==
    LET lens == {matches[i].len : i \in 1..Len(matches)}
    IN CHOOSE n \in lens : \A m \in lens : m <= n

\* c, in percent rounded down, is min(3 * kw / len, 1.0)
IsScaledConfidence(c, kw, len) ==
    \/ c = 100 /\ 3 * kw >= len
    \/ c < 100 /\ c * len <= 300 * kw /\ 300 * kw < (c + 1) * len

\* C29 as stated: without an LLM client, the confidence parse returns for a text that
\* contains a keyword is min(3 * len(keyword) / len(text), 1.0) for the best-scoring
\* keyword found.
C29_KeywordConfidence ==
    (fallback.parser.called /\ ~fallback.parser.llm /\ fallback.parser.matches # <<>>) =>
        IsScaledConfidence(fallback.parser.result.confidence,
                           LongestKeyword(fallback.parser.matches), fallback.parser.u.len)

\* C29, amended: ... is min(3 * len(keyword) / len(text), 1.0) for the best-scoring
\* keyword found when that value is above 0.5, and the result is UNKNOWN with
\* confidence 0 otherwise; the result depends on the text alone.
C29_KeywordConfidenceAboveThreshold ==
    (fallback.parser.called /\ ~fallback.parser.llm /\ fallback.parser.matches # <<>>) =>
        LET kw == LongestKeyword(fallback.parser.matches)
            len == fallback.parser.u.len
        IN IF 2 * 3 * kw > len
           THEN /\ IsScaledConfidence(fallback.parser.result.confidence, kw, len)
                /\ fallback.parser.result.type # "unknown"
           ELSE fallback.parser.result = UnknownIntent

\* C29 witness: a text of 74 characters with the keyword "play music" (3 * 10 / 74 is
\* below 0.5) was classified without an LLM client as UNKNOWN with confidence 0.
C29_Witness ==
    /\ fallback.parser.called /\ ~fallback.parser.llm
    /\ fallback.parser.u.len = 74 /\ fallback.parser.u.kw_len = 10
    /\ fallback.parser.result = UnknownIntent

\* C29, above the threshold: of two keywords found the longer one decided (0.55 here)
C29_WitnessBest ==
    /\ fallback.parser.called /\ ~fallback.parser.llm
    /\ Len(fallback.parser.matches) = 3
    /\ fallback.parser.result = Intent("play_music", 55)


(***************************************************************************)
(* The status state machine of a task (C30)                                *)
(***************************************************************************)
\* a step takes no task from pending or ready straight to completed or failed
NoShortcutToTerminal ==
    \A x \in DOMAIN graph.tasks \cap DOMAIN graph'.tasks :
        graph.tasks[x].status \in {PENDING, READY}
            => graph'.tasks[x].status \notin {COMPLETED, FAILED}

\* C30: the status of a task never moves directly from pending or ready to completed
\* or failed: a task that is completed or failed was running in the step before.
C30_TerminalOnlyFromRunning == [][NoShortcutToTerminal]_vars


(***************************************************************************)
(* get_execution_order on graphs with cycles (C31)                         *)
(***************************************************************************)
\* the tasks reachable from the set S along dependencies, in at most n more steps
RECURSIVE DepClosure(_, _, _)
DepClosure(g, S, n) ==
    IF n = 0 THEN S
    ELSE DepClosure(g, S \cup UNION {Deps(g, y) : y \in S \cap DOMAIN g.tasks}, n - 1)

\* the tasks x depends on, directly or through others
DependsOn(g, x) == DepClosure(g, Deps(g, x), Cardinality(DOMAIN g.tasks))
OnCycle(g, x) == x \in DependsOn(g, x)
BehindCycle(g, x) == OnCycle(g, x) \/ \E y \in DependsOn(g, x) : OnCycle(g, y)

\* C31: on every graph, with or without dependency cycles, get_execution_order returns
\* a list of at most as many waves as there are tasks, none of them empty; a task on a
\* cycle or depending on one is in no wave; and the loop stopped only when no task was
\* left that could form a wave: every task it started from that is in no wave has a
\* dependency that is in no wave.
C31_ExecutionOrderTerminates ==
    /\ get_execution_order(graph) # {}
    /\ \A ws \in get_execution_order(graph) :
          /\ Len(ws) <= Cardinality(DOMAIN graph.tasks)
          /\ \A w \in 1..Len(ws) : ws[w] # <<>>
          /\ \A x \in DOMAIN graph.tasks : BehindCycle(graph, x) => ~InWave(ws, x)
          /\ \A x \in Remaining(graph) :
                ~InWave(ws, x) => \E d \in Deps(graph, x) : ~InWave(ws, d)

\* C31 witness: a task depends on itself, a second one depends on it, and the waves
\* hold the third task only.
C31_Witness ==
    /\ DOMAIN graph.tasks = {1, 2, 3}
    /\ OnCycle(graph, 1) /\ 1 \in Deps(graph, 2) /\ ~OnCycle(graph, 2)
    /\ Remaining(graph) = {1, 2, 3}
    /\ get_execution_order(graph) = {<<<<3>>>>}

\* C31, a cycle of two: tasks 1 and 2 depend on each other and there is no wave
C31_WitnessCycleOfTwo ==
    /\ DOMAIN graph.tasks = {1, 2}
    /\ 2 \in Deps(graph, 1) /\ 1 \in Deps(graph, 2)
    /\ Remaining(graph) = {1, 2}
    /\ get_execution_order(graph) = {<<>>}


(***************************************************************************)
(* The tasks in the waves (C32)                                            *)
(***************************************************************************)
\* the places (wave, position) at which the id x stands in the waves ws
PlacesOf(ws, x) == {p \in (1..Len(ws)) \X DOMAIN graph.tasks :
                       p[2] <= Len(ws[p[1]]) /\ ws[p[1]][p[2]] = x}

\* C32: no task whose status is completed, failed or cancelled is in a wave of
\* get_execution_order, and no task id stands in the waves more than once.
C32_WavesHoldNonTerminalTasks ==
    \A ws \in get_execution_order(graph) :
        \A x \in DOMAIN graph.tasks :
            /\ InWave(ws, x) => graph.tasks[x].status \notin Terminal
            /\ Cardinality(PlacesOf(ws, x)) <= 1


(***************************************************************************)
(* Progress of a scheduler that is driven to the end (C33)                 *)
(***************************************************************************)
\* the ids of a list of task ids
Ids(seq) == {seq[i] : i \in 1..Len(seq)}

RECURSIVE StartAll(_, _)
StartAll(g, ids) ==
    IF ids = {} THEN g
    ELSE LET id == CHOOSE x \in ids : TRUE
         IN StartAll([g EXCEPT !.tasks[id] = mark_running(@)], ids \ {id})

\* a new task, with the next unused id, depending on nothing or on its predecessor:
\* the submitted tasks are acyclic
ProgressDomains == {"navigation", "music", "safety"}
ProgressSubmit ==
    /\ Len(graph.order) < MaxTasks
    /\ \E d \in ProgressDomains : \E deps \in DepChoices(Len(graph.order) + 1) :
          submit_task(Len(graph.order) + 1, d, PrioNormal, deps)
    /\ UNCHANGED <<safetyVars, pe, disp, fallback>>

\* the driver calls get_next_tasks and start_task for every task returned
DriveNext ==
    /\ graph' = IF available_slots(running) <= 0 THEN graph
                ELSE StartAll(ReadyMarked(graph), Ids(NextTasks(graph, running)))
    /\ running' = running \cup Ids(NextTasks(graph, running))
    /\ UNCHANGED <<safetyVars, pe, disp, fallback>>

\* a started task completes or fails
DriveComplete ==
    /\ \E id \in running : sched_complete_task(id)
    /\ UNCHANGED <<safetyVars, pe, disp, fallback>>
DriveFail ==
    /\ \E id \in running, e \in Errors : sched_fail_task(id, e)
    /\ UNCHANGED <<safetyVars, pe, disp, fallback>>

NextProgress == ProgressSubmit \/ DriveNext \/ DriveComplete \/ DriveFail

\* the driver keeps calling, and every started task ends
SpecProgress ==
    /\ InitSched /\ [][NextProgress]_vars
    /\ WF_vars(DriveNext) /\ WF_vars(DriveComplete \/ DriveFail)

\* C33: when acyclic tasks are submitted and the driver keeps calling get_next_tasks,
\* starts what it returns, and every started task completes or fails, then from some
\* point on is_complete holds: every submitted task is in a terminal state.
C33_SchedulerProgress == <>[]is_complete(graph)


(***************************************************************************)
(* The bookkeeping of the scheduler and of the graph (C34, C35)            *)
(***************************************************************************)
RunningTasks(g) == {x \in DOMAIN g.tasks : g.tasks[x].status = RUNNING}

\* C34: after any sequence of submit_task (resubmission included), get_next_tasks,
\* start_task, complete_task and fail_task, the running set of the scheduler is the
\* set of the ids of the tasks whose status is running.
C34_RunningSetMatchesStatus == running = RunningTasks(graph)

CompletedTasks(g) == {x \in DOMAIN g.tasks : g.tasks[x].status = COMPLETED}

\* C35: after any sequence of add_task, add_dependency, get_ready_tasks, mark_running,
\* complete_task and fail_task, an id is in the completed set of the graph exactly
\* when the task with that id has status completed.
C35_CompletedSetMatchesStatus == graph.completed = CompletedTasks(graph)


(***************************************************************************)
(* Dependencies at the moment a handler is invoked (C36)                   *)
(***************************************************************************)
\* the step invokes the handler of a task
InvokesHandler == Len(pe'.invoked) = Len(pe.invoked) + 1

\* when a handler is invoked, every dependency of its task has status completed
InvokedAfterDependencies ==
    InvokesHandler =>
        LET id == pe'.invoked[Len(pe'.invoked)]
        IN \A d \in Deps(graph, id) : graph.tasks[d].status = COMPLETED

\* once a SAFETY task of the batch has failed, no non-SAFETY task of the batch is or
\* was executed
NoExecutionAfterSafetyFailure ==
    PeStarted =>
        \A i, j \in 1..Len(pe.batch) :
            (BatchDomain(i) = "safety" /\ graph.tasks[i].status = FAILED
                /\ BatchDomain(j) # "safety")
                => (~Invoked(j) /\ ~HasResult(j))

\* C36: in PlanExecuteAgent.process a handler is invoked only when every dependency of
\* its task has status completed at that moment; and if a SAFETY task of the batch
\* fails, no non-SAFETY task of the batch is executed.
C36_HandlerNeedsCompletedDependencies ==
    [][InvokedAfterDependencies]_vars /\ []NoExecutionAfterSafetyFailure

\* C36 witness: the call has returned; the handler of the SAFETY task raised, and the
\* other task of the batch, which depends on it, was cancelled and not executed.
C36_Witness ==
    /\ pe.pc = "done" /\ Len(pe.batch) = 2
    /\ BatchDomain(1) = "safety" /\ graph.tasks[1].status = FAILED
    /\ BatchDomain(2) # "safety" /\ 1 \in Deps(graph, 2)
    /\ graph.tasks[2].status = CANCELLED /\ ~Invoked(2)
    /\ Len(pe.task_results) = 1

\* C36, the dependency completed: the dependent task was executed after it
C36_WitnessExecuted ==
    /\ pe.pc = "done" /\ Len(pe.batch) = 2
    /\ 1 \in Deps(graph, 2) /\ graph.tasks[1].status = COMPLETED
    /\ Invoked(2) /\ graph.tasks[2].status = COMPLETED


(***************************************************************************)
(* Accounting of a batch (C37)                                             *)
(***************************************************************************)
InvocationsOf(id) == {i \in 1..Len(pe.invoked) : pe.invoked[i] = id}
CancelledTasks(g) == {x \in DOMAIN g.tasks : g.tasks[x].status = CANCELLED}

\* C37: every intent of the batch has exactly one task; the handler of a task is
\* invoked at most once; and when the call has returned every task is in a terminal
\* state, a cancelled one with no entry in task_results and every other one with
\* exactly one entry, so that the entries and the cancelled tasks add up to the number
\* of intents.
C37_BatchAccounting ==
    /\ PeStarted =>
          /\ DOMAIN graph.tasks = 1..Len(pe.batch)
          /\ \A i \in 1..Len(pe.batch) :
                /\ graph.tasks[i].action = IntentOf(pe.batch[i]).type
                /\ Cardinality(InvocationsOf(i)) <= 1
                /\ Cardinality(ResultsOf(i)) <= Cardinality(InvocationsOf(i))
    /\ (pe.pc = "done") =>
          /\ \A x \in DOMAIN graph.tasks :
                /\ graph.tasks[x].status \in Terminal
                /\ Cardinality(ResultsOf(x)) =
                      IF graph.tasks[x].status = CANCELLED THEN 0 ELSE 1
          /\ Len(pe.task_results) + Cardinality(CancelledTasks(graph)) = Len(pe.batch)

\* C37 witness: a batch of two has returned with one task cancelled by the safety gate
\* and one entry in task_results.
C37_Witness ==
    /\ pe.pc = "done" /\ Len(pe.batch) = 2 /\ pe.checker
    /\ Cardinality(CancelledTasks(graph)) = 1
    /\ \E i \in 1..2 : Unsafe(i)
    /\ Len(pe.task_results) = 1 /\ Len(pe.invoked) = 1


(***************************************************************************)
(* Domain priorities of the scheduler and of the executor (C38)            *)
(***************************************************************************)
\* tasks of every domain submitted with the default priority (TaskPriority.NORMAL)
SubmitDefaultPriority ==
    /\ \E id \in SubmitIds(graph), d \in DomainType :
          \E deps \in DepChoices(id) : submit_task(id, d, PrioNormal, deps)
    /\ UNCHANGED <<safetyVars, pe, disp, fallback>>

NextDefaultPriority == SubmitDefaultPriority

SpecDefaultPriority == InitSched /\ [][NextDefaultPriority]_vars

\* SAFETY > NAVIGATION > PHONE > VEHICLE_SETTING > MUSIC > GENERAL
DomainRank(d) ==
    CASE d = "safety" -> 6
      [] d = "navigation" -> 5
      [] d = "phone" -> 4
      [] d = "vehicle_setting" -> 3
      [] d = "music" -> 2
      [] OTHER -> 1

\* C38: the priority submit_task gives a task submitted with the default priority is
\* the executor's DOMAIN_PRIORITY of its domain, and of two such tasks the one whose
\* domain ranks higher (SAFETY > NAVIGATION > PHONE > VEHICLE_SETTING > MUSIC >
\* GENERAL) has the greater priority, in the scheduler's and in the executor's table.
C38_PrioritiesAgree ==
    /\ \A x \in DOMAIN graph.tasks :
          graph.tasks[x].priority = DOMAIN_PRIORITY(graph.tasks[x].domain)
    /\ \A x, y \in DOMAIN graph.tasks :
          DomainRank(graph.tasks[x].domain) > DomainRank(graph.tasks[y].domain) =>
              /\ graph.tasks[x].priority > graph.tasks[y].priority
              /\ DOMAIN_PRIORITY(graph.tasks[x].domain) > DOMAIN_PRIORITY(graph.tasks[y].domain)


(***************************************************************************)
(* The safety gate across driving states (C39, C40)                        *)
(***************************************************************************)
\* C39: the gate is monotone in the severity of the driving state: whenever the verdict
\* on an intent checked with driving state driving requires confirmation, the verdict
\* of the same gate on the same intent with driving state highway requires it too.
C39_HighwayNoMorePermissive ==
    (Checked /\ req.ds = "driving" /\ verdict.requires_confirmation)
        => check(cfg, req.intent, "highway").requires_confirmation

\* C40: the gate fails closed on the driving state: for every driving state other than
\* parked, the documented ones or not, an intent outside the SAFETY domain whose action
\* is in the blocked set is rejected.
C40_BlockedUnlessParked ==
    (Checked /\ req.ds # "parked" /\ req.intent.domain # "safety"
        /\ req.intent.type \in cfg.blocked)
        => ~verdict.is_safe

====
